---- MODULE Spec2Model ----
(***************************************************************************)
(* Model of the A121 distance detector (Detector, its readiness status     *)
(* and its range planner).                                                 *)
(*                                                                         *)
(* Units.  Distances of a DetectorConfig are integers in millimetres.      *)
(* A range point is APPROX_BASE_STEP_LENGTH_M = 2.5 mm, so intermediate    *)
(* distances are kept in half-millimetres ("hmm"): 1 point = 5 hmm.        *)
(* Optional values are sequences: None is << >>, a present v is <<v>>.     *)
(***************************************************************************)
EXTENDS Integers, Sequences, FiniteSets, TLC

None == << >>
Some(v) == <<v>>

\* F applied to the value of v, with v evaluated once
Apply(v, F(_)) == CHOOSE r \in {F(x) : x \in {v}} : TRUE

Range(seq) == {seq[i] : i \in 1..Len(seq)}

Min2(a, b) == IF a <= b THEN a ELSE b
Max2(a, b) == IF a >= b THEN a ELSE b

\* Python int(x) of the quotient a / b (b > 0): truncation toward zero.
TruncDiv(a, b) == IF a >= 0 THEN a \div b ELSE -((-a) \div b)

\* Python x // b for b > 0: floor.
FloorDiv(a, b) == a \div b

(***************************************************************************)
(* Class constants of Detector.                                            *)
(***************************************************************************)
MIN_DIST_M == 0
MAX_DIST_M == 17000
MIN_LEAKAGE_FREE_DIST_M == <<120, 280, 560, 760, 1280>>
MIN_NUM_POINTS_IN_ENVELOPE_FWHM_SPAN == 4
VALID_STEP_LENGTHS == <<1, 2, 3, 4, 6, 8, 12, 24>>
NUM_SUBSWEEPS_IN_SENSOR_CONFIG == 4

Profiles == 1..5
ThresholdMethods == {"CFAR", "FIXED", "RECORDED"}

(***************************************************************************)
(* Processor (distance/_processors.py).  ENVELOPE_FWHM_M divided by        *)
(* APPROX_BASE_STEP_LENGTH_M, in points, and the margins derived from it.  *)
(***************************************************************************)
HMM_PER_POINT == 5
ENVELOPE_FWHM_P == <<16, 28, 56, 76, 128>>

calc_cfar_guard_half_length(profile, step_length) ==
    (2 * ENVELOPE_FWHM_P[profile]) \div step_length

calc_cfar_window_length(profile, step_length) ==
    Max2(1, ENVELOPE_FWHM_P[profile] \div (4 * step_length))

calc_cfar_margin(profile, step_length) ==
    calc_cfar_guard_half_length(profile, step_length)
        + calc_cfar_window_length(profile, step_length)

\* ceil(fwhm / (base step * step_length)) in binary floating point: for
\* profiles 2 and 3 the quotient fwhm / base step lies just above the integer
\* (28.000000000000004, 56.00000000000001), so an exact division rounds up.
distance_filter_edge_margin(profile, step_length) ==
    LET q == ENVELOPE_FWHM_P[profile] \div step_length
        exact == (ENVELOPE_FWHM_P[profile] % step_length) = 0
    IN  IF exact /\ profile \notin {2, 3} THEN q ELSE q + 1

(***************************************************************************)
(* Range planner (class methods of Detector).                              *)
(***************************************************************************)
\* Detector._limit_step_length
limit_step_length(profile, user_limit) ==
    LET fwhm_limit == ENVELOPE_FWHM_P[profile] \div MIN_NUM_POINTS_IN_ENVELOPE_FWHM_SPAN
        limit == IF user_limit = None THEN fwhm_limit
                 ELSE Min2(user_limit[1], fwhm_limit)
        last == VALID_STEP_LENGTHS[Len(VALID_STEP_LENGTHS)]
        idx_closest ==
            Cardinality({i \in 1..Len(VALID_STEP_LENGTHS) : VALID_STEP_LENGTHS[i] <= limit}) - 1
    IN  IF limit < last
        THEN \* a negative Python index counts from the end of the list
             IF idx_closest >= 0 THEN VALID_STEP_LENGTHS[idx_closest + 1] ELSE last
        ELSE (limit \div last) * last

\* Detector._calc_leakage_free_min_dist, one entry, in half-millimetres
calc_leakage_free_min_dist(config, profile) ==
    LET step_length == limit_step_length(profile, config.max_step_length)
    IN  2 * MIN_LEAKAGE_FREE_DIST_M[profile]
          + (IF config.threshold_method = "CFAR"
             THEN HMM_PER_POINT * calc_cfar_margin(profile, step_length) * step_length
             ELSE 0)

\* Detector._m_to_points for the breakpoints a + (b - a) * i / n, i = 0..n
\* (a, b in half-millimetres, a /= b); the result is indexed 1..n+1.
m_to_points(a, b, n, step_length) ==
    LET start_point == TruncDiv(a, HMM_PER_POINT)
    IN  [k \in 1..(n + 1) |->
            FloorDiv((b - a) * (k - 1) + HMM_PER_POINT * n * start_point,
                     HMM_PER_POINT * n * step_length) * step_length]

\* Detector._add_margin_to_breakpoints
add_margin_to_breakpoints(profile, step_length, base_bpts, has_neighbour, config, is_close_range_measurement) ==
    LET margin_p == distance_filter_edge_margin(profile, step_length) * step_length
        cfar_margin ==
            IF config.threshold_method = "CFAR" /\ ~is_close_range_measurement
            THEN calc_cfar_margin(profile, step_length) * step_length
            ELSE 0
        left_margin == margin_p + (IF has_neighbour[1] THEN margin_p ELSE 0) + cfar_margin
        right_margin == margin_p + (IF has_neighbour[2] THEN margin_p ELSE 0) + cfar_margin
        last == Len(base_bpts)
    IN  [k \in 1..last |->
            base_bpts[k] - (IF k = 1 THEN left_margin ELSE 0)
                         + (IF k = last THEN right_margin ELSE 0)]

\* Detector._create_group_plan.  The hwaas list is a function of the profile,
\* the step length, the breakpoints and config.signal_quality; the model keeps
\* signal_quality fixed, so hwaas adds nothing to a plan's identity.
\* core_m are the requested bounds in half-millimetres, is_nan tells that
\* _m_to_points divides zero by zero (all breakpoints NaN).
create_group_plan(profile, config, a, b, n, has_neighbour, is_close_range_measurement) ==
    LET step_length == limit_step_length(profile, config.max_step_length)
        breakpoints == m_to_points(a, b, n, step_length)
    IN  [step_length |-> step_length,
         breakpoints |-> add_margin_to_breakpoints(profile, step_length, breakpoints,
                             has_neighbour, config, is_close_range_measurement),
         profile     |-> profile,
         base_bpts   |-> breakpoints,
         core_m      |-> <<a, b>>,
         has_neighbour |-> has_neighbour,
         is_nan      |-> (a = b)]

\* Detector._get_close_range_group_plan
get_close_range_group_plan(transition_m, config) ==
    << create_group_plan(1, config, 2 * config.start_m, transition_m, 1,
                         <<FALSE, transition_m < 2 * config.end_m>>, TRUE) >>

\* Detector._get_transition_group_plans
transition_profiles(config) ==
    SelectSeq(<<1, 3>>, LAMBDA p : p < config.max_profile) \o <<config.max_profile>>

\* One pass of the loop over consecutive transition profiles: whether pass i
\* appends a plan, and the plan it appends.  Pass i sees the plans appended by
\* the passes before it only through their number.
transition_applies(config, i) ==
    LET tp == transition_profiles(config)
    IN  /\ 2 * config.start_m < calc_leakage_free_min_dist(config, tp[i + 1])
        /\ calc_leakage_free_min_dist(config, tp[i]) < 2 * config.end_m

transition_plan(config, has_close_range_measurement, i) ==
    LET tp == transition_profiles(config)
        profile == tp[i]
        next_profile == tp[i + 1]
        lo == calc_leakage_free_min_dist(config, profile)
        hi == calc_leakage_free_min_dist(config, next_profile)
        start_m == Max2(lo, 2 * config.start_m)
        end_m == Min2(2 * config.end_m, hi)
        has_neighbour ==
            << has_close_range_measurement
                   \/ (\E j \in 1..(i - 1) : transition_applies(config, j)),
               hi < end_m >>
    IN  create_group_plan(profile, config, start_m, end_m, 1, has_neighbour, FALSE)

get_transition_group_plans(config, has_close_range_measurement) ==
    LET passes == [i \in 1..(Len(transition_profiles(config)) - 1) |-> i]
        applied == SelectSeq(passes, LAMBDA i : transition_applies(config, i))
    IN  [k \in 1..Len(applied) |->
            transition_plan(config, has_close_range_measurement, applied[k])]

\* Detector._get_max_profile_group_plans
get_max_profile_group_plans(config, has_neighbouring_subsweep, num_remaining_subsweeps) ==
    LET lo == calc_leakage_free_min_dist(config, config.max_profile)
    IN  IF lo < 2 * config.end_m
        THEN << create_group_plan(config.max_profile, config,
                    Max2(2 * config.start_m, lo), 2 * config.end_m,
                    num_remaining_subsweeps,
                    <<has_neighbouring_subsweep, FALSE>>, FALSE) >>
        ELSE << >>

\* mutant: the max-profile plan always gets all the subsweeps of a sensor
\* config
create_group_plans_undivided(config) ==
    LET close_range_transition_m == calc_leakage_free_min_dist(config, 1)
        close == IF 2 * config.start_m < close_range_transition_m
                 THEN get_close_range_group_plan(close_range_transition_m, config)
                 ELSE << >>
        transition_subgroup_plans == get_transition_group_plans(config, close /= << >>)
        has_neighbouring_subsweep ==
            close /= << >> \/ Len(transition_subgroup_plans) /= 0
        max_profile_subgroup_plans ==
            get_max_profile_group_plans(config, has_neighbouring_subsweep,
                                        NUM_SUBSWEEPS_IN_SENSOR_CONFIG)
    IN  [CLOSE_RANGE |-> close,
         FAR_RANGE   |-> transition_subgroup_plans \o max_profile_subgroup_plans]

\* Detector._create_group_plans: the dictionary of plans, an absent key being
\* an empty sequence.
create_group_plans(config) ==
    LET close_range_transition_m == calc_leakage_free_min_dist(config, 1)
        close == IF 2 * config.start_m < close_range_transition_m
                 THEN get_close_range_group_plan(close_range_transition_m, config)
                 ELSE << >>
        transition_subgroup_plans == get_transition_group_plans(config, close /= << >>)
        num_remaining_subsweeps ==
            NUM_SUBSWEEPS_IN_SENSOR_CONFIG - Len(transition_subgroup_plans)
        has_neighbouring_subsweep ==
            close /= << >> \/ Len(transition_subgroup_plans) /= 0
        max_profile_subgroup_plans ==
            get_max_profile_group_plans(config, has_neighbouring_subsweep,
                                        num_remaining_subsweeps)
    IN  [CLOSE_RANGE |-> close,
         FAR_RANGE   |-> transition_subgroup_plans \o max_profile_subgroup_plans]

(***************************************************************************)
(* Session configuration and processor specifications derived from a plan. *)
(***************************************************************************)
PRFs == {"PRF_19_5_MHz", "PRF_13_0_MHz", "PRF_8_7_MHz", "PRF_6_5_MHz"}
MAX_MEASURABLE_DIST_M ==
    [PRF_19_5_MHz |-> 3100, PRF_13_0_MHz |-> 7000,
     PRF_8_7_MHz |-> 12700, PRF_6_5_MHz |-> 18500]
\* a121.PRF.frequency, in kHz
PRF_frequency ==
    [PRF_19_5_MHz |-> 19500, PRF_13_0_MHz |-> 13000,
     PRF_8_7_MHz |-> 8700, PRF_6_5_MHz |-> 6500]

\* Detector._select_prf; "IndexError" when no PRF is viable (sorted([])[-1])
select_prf(breakpoint, profile) ==
    LET viable == {prf \in PRFs :
                      /\ (prf = "PRF_19_5_MHz" => profile \in {1, 2})
                      /\ HMM_PER_POINT * breakpoint < 2 * MAX_MEASURABLE_DIST_M[prf]}
    IN  IF viable = {} THEN "IndexError"
        ELSE CHOOSE prf \in viable :
                 \A other \in viable : PRF_frequency[prf] >= PRF_frequency[other]

SubsweepConfig(start_point, num_points, step_length, profile, receiver_gain, enable_loopback, prf) ==
    [start_point |-> start_point, num_points |-> num_points,
     step_length |-> step_length, profile |-> profile,
     receiver_gain |-> receiver_gain, enable_loopback |-> enable_loopback,
     prf |-> prf]

\* Detector._close_subsweep_group_plans_to_sensor_config
close_subsweep_group_plans_to_sensor_config(plan_) ==
    LET plan == plan_[1]
        num_points == TruncDiv(plan.breakpoints[2] - plan.breakpoints[1], plan.step_length)
    IN  [subsweeps |->
            << SubsweepConfig(0, 1, 1, 4, 15, TRUE, "PRF_13_0_MHz"),
               SubsweepConfig(plan.breakpoints[1], num_points, plan.step_length,
                              plan.profile, 5, FALSE,
                              select_prf(plan.breakpoints[2], plan.profile)) >>,
         sweeps_per_frame |-> 10]

\* the subsweeps of one far-range group plan
plan_subsweeps(plan) ==
    [bp_idx \in 1..(Len(plan.breakpoints) - 1) |->
        SubsweepConfig(plan.breakpoints[bp_idx],
                       TruncDiv(plan.breakpoints[bp_idx + 1] - plan.breakpoints[bp_idx],
                                plan.step_length),
                       plan.step_length, plan.profile, 10, FALSE,
                       select_prf(plan.breakpoints[bp_idx + 1], plan.profile))]

\* the number of subsweeps of the plans before plan i
subsweeps_before(subsweep_group_plans, i) ==
    Cardinality(UNION { {<<j, k>> : k \in 1..(Len(subsweep_group_plans[j].breakpoints) - 1)} :
                        j \in 1..(i - 1) })

\* Detector._far_subsweep_group_plans_to_sensor_config_and_subsweep_indexes
far_subsweep_group_plans_to_sensor_config_and_subsweep_indexes(subsweep_group_plans) ==
    LET count == Len(subsweep_group_plans)
        total == subsweeps_before(subsweep_group_plans, count + 1)
        plan_of(idx) == CHOOSE i \in 1..count :
                            /\ subsweeps_before(subsweep_group_plans, i) < idx
                            /\ idx <= subsweeps_before(subsweep_group_plans, i + 1)
        subsweeps ==
            [idx \in 1..total |->
                plan_subsweeps(subsweep_group_plans[plan_of(idx)])
                    [idx - subsweeps_before(subsweep_group_plans, plan_of(idx))]]
        indexes ==
            [i \in 1..count |->
                [k \in 1..(Len(subsweep_group_plans[i].breakpoints) - 1) |->
                    subsweeps_before(subsweep_group_plans, i) + k - 1]]
    IN  << [subsweeps |-> subsweeps, sweeps_per_frame |-> 1], indexes >>

ProcessorSpec(threshold_method, measurement_type, group_index, sid, subsweep_indexes) ==
    [threshold_method |-> threshold_method, measurement_type |-> measurement_type,
     group_index |-> group_index, sensor_id |-> sid,
     subsweep_indexes |-> subsweep_indexes]

\* Detector._detector_to_session_config_and_processor_specs:
\* <<session_config, processor_specs>>
detector_to_session_config_and_processor_specs(config, sid) ==
    Apply(create_group_plans(config), LAMBDA plans :
    LET has_close == plans.CLOSE_RANGE /= << >>
        has_far == plans.FAR_RANGE /= << >>
        close_groups ==
            IF has_close
            THEN << [sensor_id |-> sid,
                     sensor_config |->
                        close_subsweep_group_plans_to_sensor_config(plans.CLOSE_RANGE)] >>
            ELSE << >>
        close_specs ==
            IF has_close
            THEN << ProcessorSpec("RECORDED", "CLOSE_RANGE", 0, sid, <<0, 1>>) >>
            ELSE << >>
        group_index == Len(close_groups)
        far == far_subsweep_group_plans_to_sensor_config_and_subsweep_indexes(plans.FAR_RANGE)
        far_groups ==
            IF has_far THEN << [sensor_id |-> sid, sensor_config |-> far[1]] >>
            ELSE << >>
        far_specs ==
            IF has_far
            THEN [k \in 1..Len(far[2]) |->
                     ProcessorSpec(config.threshold_method, "FAR_RANGE", group_index,
                                   sid, far[2][k])]
            ELSE << >>
    IN  << [groups |-> close_groups \o far_groups, extended |-> TRUE],
           close_specs \o far_specs >>)

\* What stops planning for a config, in the order the code meets it:
\* "ValueError" when a group plan has equal bounds (_m_to_points yields NaN
\* and _calculate_hwaas converts NaN to int), "IndexError" when _select_prf
\* finds no viable PRF, otherwise "none".
planning_error(config) ==
    IF \E plans \in {create_group_plans(config)} :
          \E plan \in Range(plans.CLOSE_RANGE \o plans.FAR_RANGE) : plan.is_nan
    THEN "ValueError"
    ELSE IF \E sc \in {detector_to_session_config_and_processor_specs(config, 1)[1]} :
               \E g \in 1..Len(sc.groups) :
                   \E subsweep \in Range(sc.groups[g].sensor_config.subsweeps) :
                       subsweep.prf = "IndexError"
         THEN "IndexError"
         ELSE "none"

\* A subsweep with fewer than one point: the a121 entity classes (not part of
\* the detector) decide whether such a SubsweepConfig can be built.
has_nonpositive_num_points(config) ==
    \E sc \in {detector_to_session_config_and_processor_specs(config, 1)[1]} :
        \E g \in 1..Len(sc.groups) :
            \E subsweep \in Range(sc.groups[g].sensor_config.subsweeps) :
                subsweep.num_points < 1

(***************************************************************************)
(* State.                                                                  *)
(***************************************************************************)
VARIABLES
    sensor_id,          \* Detector.sensor_id
    detector_config,    \* Detector.detector_config
    session_config,     \* Detector.session_config
    processor_specs,    \* Detector.processor_specs
    context,            \* Detector.context (DetectorContext)
    started,            \* Detector.started
    aggregator,         \* Detector.aggregator: None or Some(number of specs)
    client_session,     \* the client's session: "idle", "setup" or "running"
    entity_validation,  \* whether the a121 entities reject num_points < 1
    plan_table,         \* the planner's results for the configs of the model
    op,                 \* the operation performed last
    raised,             \* the exception it raised, "none" when it returned
    calls,              \* the number of client calls it made
    returned,           \* what it returned
    e2e,                \* progress through the end-to-end call sequence
    q_config, q_context, q_sensor_id, q_status, \* an evaluation of get_detector_status
    t_limit,            \* unwrap_ticks: the wrap period (limit)
    t_ticks,            \* the batch of raw ticks passed to the last call
    t_passed,           \* the minimum_tick passed to the last call
    t_unwrapped,        \* what the last call returned or raised
    t_minimum_tick,     \* the caller's rolling maximum, passed to the next call
    t_previous_maximum, \* the largest maximum any call has returned so far
    t_calls,            \* the number of calls made
    p_config,           \* the config handed to _create_group_plans
    p_plans,            \* the plans it returned
    f_name,             \* the function (or pair of functions) called stand-alone
    f_args,             \* its arguments
    f_returned,         \* what the calls made so far returned, in order
    clock,              \* gentry.py: now() when the outputs were last evaluated
    left, right,        \* left, right: whether each sensor detects
    out1, out2,         \* out1, out2
    activetime,         \* activetime
    inactivetime,       \* inactivetime
    idletime,           \* idletime
    gpio,               \* the level of each relay pin (TRUE is GPIO.HIGH)
    printed,            \* the lines the last iteration printed
    sent,               \* the events the last iteration sent with sendstatus
    detected,           \* None or Some(clock) of the last iteration that detected
    exitcode,           \* None while the program runs
    pc,                 \* the statement the main thread is at
    iterations,         \* the passes of the main loop completed
    lock,               \* lock: the thread holding it, "none" when free
    sensordata,         \* sensordata
    dist_left, sweep_left, thres_left,      \* None while the name is unbound
    dist_right, sweep_right, thres_right,
    mqtt,               \* where the MQTT thread is in data_buildmessage
    requests,           \* the data requests answered so far
    built               \* None or the outcome of the last data_buildmessage

vars == <<sensor_id, detector_config, session_config, processor_specs, context,
          started, aggregator, client_session, entity_validation, plan_table,
          op, raised, calls, returned, e2e, q_config, q_context, q_sensor_id,
          q_status, t_limit, t_ticks, t_passed, t_unwrapped, t_minimum_tick,
          t_previous_maximum, t_calls, p_config, p_plans, f_name, f_args,
          f_returned, clock, left, right, out1, out2, activetime, inactivetime,
          idletime, gpio, printed, sent, detected, exitcode, pc, iterations,
          lock, sensordata, dist_left, sweep_left, thres_left, dist_right,
          sweep_right, thres_right, mqtt, requests, built>>

detector_vars == <<sensor_id, detector_config, session_config, processor_specs,
                   context, started, aggregator, client_session, op, raised,
                   calls, returned, e2e>>

query_vars == <<q_config, q_context, q_sensor_id, q_status>>

env_vars == <<entity_validation, plan_table>>

tick_vars == <<t_limit, t_ticks, t_passed, t_unwrapped, t_minimum_tick,
               t_previous_maximum, t_calls>>

plan_vars == <<p_config, p_plans>>

call_vars == <<f_name, f_args, f_returned>>

loop_vars == <<clock, left, right, out1, out2, activetime, inactivetime, idletime,
               gpio, printed, sent, detected, exitcode>>

data_vars == <<pc, iterations, lock, sensordata, dist_left, sweep_left, thres_left,
               dist_right, sweep_right, thres_right, mqtt, requests, built>>

gentry_vars == <<loop_vars, data_vars>>

(***************************************************************************)
(* DetectorConfig and DetectorContext.                                     *)
(***************************************************************************)
\* num_frames_in_recorded_threshold of every config of the model
NumFrames == 2

DetectorConfig(start_m, end_m, threshold_method, max_profile) ==
    [start_m |-> start_m, end_m |-> end_m, max_step_length |-> None,
     max_profile |-> max_profile, threshold_method |-> threshold_method,
     num_frames_in_recorded_threshold |-> NumFrames]

\* DetectorContext(): every field defaults to None
DetectorContext ==
    [offset_m |-> None,
     direct_leakage |-> None,
     phase_jitter_comp_reference |-> None,
     recorded_thresholds_mean_sweep |-> None,
     recorded_thresholds_noise_std |-> None,
     bg_noise_std |-> None,
     recorded_threshold_session_config_used |-> None,
     close_range_session_config_used |-> None,
     reference_temperature |-> None]

(***************************************************************************)
(* Bounds of the model.                                                    *)
(***************************************************************************)
SensorIds == {1}

\* the configs a Detector is built with or updated to: the default range
\* 0.25 m .. 3 m, a start inside the close range, a start below and an end
\* above the permitted range
DetConfigs ==
    { DetectorConfig(250, 3000, "CFAR", 5),
      DetectorConfig(250, 3000, "RECORDED", 5),
      DetectorConfig(100, 3000, "CFAR", 5),
      DetectorConfig(-100, 3000, "CFAR", 5) }

\* the configs get_detector_status is evaluated for
QueryStarts == {-100, 0, 100, 250, 5000}
QueryEnds == {3000, 17000, 17500}
QueryConfigs ==
    { DetectorConfig(s, e, tm, 5) :
        s \in QueryStarts, e \in QueryEnds, tm \in ThresholdMethods }

QuerySensorIds == {1, 2}

\* the configs whose session configs a queried context may name as used
QuerySessionConfigs ==
    { DetectorConfig(100, 3000, "CFAR", 5), DetectorConfig(250, 3000, "RECORDED", 5) }

\* Planning is a pure function of (config, sensor id): it is computed once
\* for the configs of the model, kept in plan_table and looked up afterwards.
PlanTable(configs, sids) ==
    [config \in configs |->
        [result |-> [sid \in sids |->
                        detector_to_session_config_and_processor_specs(config, sid)]
                    @@ << >>,
         segments |-> Apply(create_group_plans(config), LAMBDA plans :
                         [CLOSE_RANGE |-> Len(plans.CLOSE_RANGE),
                          FAR_RANGE |-> Len(plans.FAR_RANGE)]),
         error |-> planning_error(config),
         nonpositive |-> has_nonpositive_num_points(config)]] @@ << >>

planned(config, sid) == plan_table[config].result[sid]

\* the session configs a queried context may name as used
QuerySessions ==
    { planned(config, 1)[1] : config \in QuerySessionConfigs }
    \cup { planned(DetectorConfig(100, 3000, "CFAR", 5), 2)[1] }

\* the contexts get_detector_status is evaluated for: every combination of
\* present and absent calibration fields and of session configs used
QueryContexts ==
    { [DetectorContext EXCEPT
          !.direct_leakage = dl,
          !.phase_jitter_comp_reference = pjcr,
          !.recorded_thresholds_mean_sweep = mean,
          !.recorded_thresholds_noise_std = std,
          !.recorded_threshold_session_config_used = rt_used,
          !.close_range_session_config_used = cr_used] :
        dl \in {None, Some("measured")},
        pjcr \in {None, Some("measured")},
        mean \in {None, Some(<<"measured">>)},
        std \in {None, Some(<<"measured">>)},
        rt_used \in {None} \cup {Some(sc) : sc \in QuerySessions},
        cr_used \in {None} \cup {Some(sc) : sc \in QuerySessions} }

\* the calls of the end-to-end sequence, in order
E2E == <<"calibrate_noise", "calibrate_offset", "start", "get_next", "stop">>

(***************************************************************************)
(* Readiness status (Detector.get_detector_status and its helpers).        *)
(***************************************************************************)
DetectorStatus(detector_state, ready_to_calibrate_close_range, ready_to_record_threshold, ready_to_start) ==
    [raised |-> "none",
     detector_state |-> detector_state,
     ready_to_calibrate_close_range |-> ready_to_calibrate_close_range,
     ready_to_record_threshold |-> ready_to_record_threshold,
     ready_to_start |-> ready_to_start]

\* the outcome of an evaluation that raises instead of returning a status
StatusRaises(exception) ==
    [raised |-> exception,
     detector_state |-> "NO_STATUS",
     ready_to_calibrate_close_range |-> FALSE,
     ready_to_record_threshold |-> FALSE,
     ready_to_start |-> FALSE]

\* Detector._valid_detector_config_range
valid_detector_config_range(config) ==
    MIN_DIST_M < config.start_m /\ config.end_m < MAX_DIST_M

\* Detector._close_range_calibrated: "RuntimeError", or the boolean returned
close_range_calibrated(ctx) ==
    LET has_dl == ctx.direct_leakage /= None
        has_pjcr == ctx.phase_jitter_comp_reference /= None
    IN  IF has_dl /= has_pjcr THEN "RuntimeError"
        ELSE IF has_dl /\ has_pjcr THEN "True" ELSE "False"

\* mutant: only the mean sweep is looked at
recorded_threshold_calibrated_mean_only(ctx) ==
    ctx.recorded_thresholds_mean_sweep /= None

\* Detector._recorded_threshold_calibrated
recorded_threshold_calibrated(ctx) ==
    /\ ctx.recorded_thresholds_mean_sweep /= None
    /\ ctx.recorded_thresholds_noise_std /= None

\* Detector._has_close_range_measurement
has_close_range_measurement(config) ==
    LET specs == planned(config, 1)[2]
    IN  \E i \in 1..Len(specs) : specs[i].measurement_type = "CLOSE_RANGE"

\* mutant: the measurement type is compared instead of the threshold method
has_recorded_threshold_mode_wrong_field(config) ==
    LET specs == planned(config, 1)[2]
    IN  \E i \in 1..Len(specs) : specs[i].measurement_type = "RECORDED"

\* Detector._has_recorded_threshold_mode
has_recorded_threshold_mode(config) ==
    LET specs == planned(config, 1)[2]
    IN  \E i \in 1..Len(specs) : specs[i].threshold_method = "RECORDED"

\* the exception that _detector_to_session_config_and_processor_specs raises
\* for a config, "none" when it returns
planning_raises(config) ==
    IF plan_table[config].error /= "none" THEN plan_table[config].error
    ELSE IF entity_validation /\ plan_table[config].nonpositive THEN "ValueError"
    ELSE "none"

\* mutant: a leakage calibration made for another session config counts as
\* missing
close_range_status_stale_is_missing(live, ctx) ==
    IF close_range_calibrated(ctx) = "RuntimeError"
    THEN StatusRaises("RuntimeError")
    ELSE IF close_range_calibrated(ctx) = "True"
            /\ Some(live) = ctx.close_range_session_config_used
    THEN IF ~recorded_threshold_calibrated(ctx)
         THEN DetectorStatus("RECORDED_THRESHOLD_MISSING", TRUE, TRUE, FALSE)
         ELSE IF Some(live) /= ctx.recorded_threshold_session_config_used
         THEN DetectorStatus("RECORDED_THRESHOLD_CONFIG_MISMATCH", TRUE, FALSE, FALSE)
         ELSE DetectorStatus("OK", TRUE, TRUE, TRUE)
    ELSE DetectorStatus("CLOSE_RANGE_CALIBRATION_MISSING", TRUE, FALSE, FALSE)

\* mutant: the recorded threshold is looked at before the session config of
\* the leakage calibration
close_range_status_threshold_first(live, ctx) ==
    IF close_range_calibrated(ctx) = "RuntimeError"
    THEN StatusRaises("RuntimeError")
    ELSE IF close_range_calibrated(ctx) = "True"
    THEN IF ~recorded_threshold_calibrated(ctx)
         THEN DetectorStatus("RECORDED_THRESHOLD_MISSING", TRUE, TRUE, FALSE)
         ELSE IF Some(live) /= ctx.recorded_threshold_session_config_used
         THEN DetectorStatus("RECORDED_THRESHOLD_CONFIG_MISMATCH", TRUE, FALSE, FALSE)
         ELSE IF Some(live) /= ctx.close_range_session_config_used
         THEN DetectorStatus("CLOSE_RANGE_CALIBRATION_CONFIG_MISMATCH", TRUE, FALSE, FALSE)
         ELSE DetectorStatus("OK", TRUE, TRUE, TRUE)
    ELSE DetectorStatus("CLOSE_RANGE_CALIBRATION_MISSING", TRUE, FALSE, FALSE)

\* mutant: ready_to_record_threshold starts out True
close_range_status_ready_to_record(live, ctx) ==
    IF close_range_calibrated(ctx) = "RuntimeError"
    THEN StatusRaises("RuntimeError")
    ELSE IF close_range_calibrated(ctx) = "True"
    THEN IF Some(live) /= ctx.close_range_session_config_used
         THEN DetectorStatus("CLOSE_RANGE_CALIBRATION_CONFIG_MISMATCH", TRUE, TRUE, FALSE)
         ELSE IF ~recorded_threshold_calibrated(ctx)
         THEN DetectorStatus("RECORDED_THRESHOLD_MISSING", TRUE, TRUE, FALSE)
         ELSE IF Some(live) /= ctx.recorded_threshold_session_config_used
         THEN DetectorStatus("RECORDED_THRESHOLD_CONFIG_MISMATCH", TRUE, TRUE, FALSE)
         ELSE DetectorStatus("OK", TRUE, TRUE, TRUE)
    ELSE DetectorStatus("CLOSE_RANGE_CALIBRATION_MISSING", TRUE, TRUE, FALSE)

\* Detector.get_detector_status, the branch of a plan with a close-range
\* segment; live is the session config of the config evaluated
close_range_status(live, ctx) ==
    IF close_range_calibrated(ctx) = "RuntimeError"
    THEN StatusRaises("RuntimeError")
    ELSE IF close_range_calibrated(ctx) = "True"
    THEN IF Some(live) /= ctx.close_range_session_config_used
         THEN DetectorStatus("CLOSE_RANGE_CALIBRATION_CONFIG_MISMATCH", TRUE, FALSE, FALSE)
         ELSE IF ~recorded_threshold_calibrated(ctx)
         THEN DetectorStatus("RECORDED_THRESHOLD_MISSING", TRUE, TRUE, FALSE)
         ELSE IF Some(live) /= ctx.recorded_threshold_session_config_used
         THEN DetectorStatus("RECORDED_THRESHOLD_CONFIG_MISMATCH", TRUE, FALSE, FALSE)
         ELSE DetectorStatus("OK", TRUE, TRUE, TRUE)
    ELSE DetectorStatus("CLOSE_RANGE_CALIBRATION_MISSING", TRUE, FALSE, FALSE)

\* Detector.get_detector_status, the branch of a plan without a close-range
\* segment
far_range_status(config, live, ctx) ==
    IF has_recorded_threshold_mode(config)
    THEN IF recorded_threshold_calibrated(ctx)
         THEN IF Some(live) /= ctx.recorded_threshold_session_config_used
              THEN DetectorStatus("RECORDED_THRESHOLD_CONFIG_MISMATCH", FALSE, TRUE, FALSE)
              ELSE DetectorStatus("OK", FALSE, TRUE, TRUE)
         ELSE DetectorStatus("RECORDED_THRESHOLD_MISSING", FALSE, TRUE, FALSE)
    ELSE DetectorStatus("OK", FALSE, FALSE, TRUE)

\* Detector.get_detector_status
get_detector_status(config, ctx, sid) ==
    IF ~valid_detector_config_range(config)
    THEN DetectorStatus("INVALID_DETECTOR_CONFIG_RANGE", FALSE, FALSE, FALSE)
    ELSE IF planning_raises(config) /= "none"
    THEN StatusRaises(planning_raises(config))
    ELSE IF has_close_range_measurement(config)
    THEN close_range_status(planned(config, sid)[1], ctx)
    ELSE far_range_status(config, planned(config, sid)[1], ctx)

(***************************************************************************)
(* Detector operations.  An operation works on the record S of the fields  *)
(* it can change and is followed to its end: S.raised is the exception it  *)
(* ends with, S.calls the number of client calls it made.  The client      *)
(* answers every call except the fail-th one of the operation (fail = 0:   *)
(* it answers all of them), which raises.  What a measurement yields does  *)
(* not steer the detector: every measured value is the token Measured.     *)
(***************************************************************************)
Measured == "measured"

Current ==
    [started |-> started, context |-> context, client_session |-> client_session,
     aggregator |-> aggregator, calls |-> 0, raised |-> "none", returned |-> "None"]

Raise(S, exception) == [S EXCEPT !.raised = exception]

\* sequencing: F is skipped once an exception is under way
Then(S, F(_)) == Apply(S, LAMBDA T : IF T.raised /= "none" THEN T ELSE F(T))

\* one call of a client method that leaves the session in session_after
client_call(S, fail, session_after) ==
    IF S.calls + 1 = fail
    THEN [S EXCEPT !.calls = @ + 1, !.raised = "ClientError"]
    ELSE [S EXCEPT !.calls = @ + 1, !.client_session = session_after]

client_setup_session(S, fail) == client_call(S, fail, "setup")
client_start_session(S, fail) == client_call(S, fail, "running")
client_get_next(S, fail) == client_call(S, fail, S.client_session)
client_stop_session(S, fail) == client_call(S, fail, "setup")

\* setup_session, start_session, get_next, stop_session in a row
one_frame_session(S, fail) ==
    LET S1 == client_setup_session(S, fail)
        S2 == Then(S1, LAMBDA T : client_start_session(T, fail))
        S3 == Then(S2, LAMBDA T : client_get_next(T, fail))
    IN  Then(S3, LAMBDA T : client_stop_session(T, fail))

\* mutant: the check of self.started is missing
validate_ready_for_calibration_unchecked(S) == "none"

\* Detector._validate_ready_for_calibration (session_config and
\* processor_specs are set by the constructor and are never None)
validate_ready_for_calibration(S) ==
    IF S.started THEN "RuntimeError" ELSE "none"

\* Detector.calibrate_noise
calibrate_noise(S, fail) ==
    IF validate_ready_for_calibration(S) /= "none"
    THEN Raise(S, validate_ready_for_calibration(S))
    ELSE Then(one_frame_session(S, fail), LAMBDA T :
            [T EXCEPT !.context.bg_noise_std =
                          Some([i \in 1..Len(processor_specs) |-> Measured])])

\* Detector.calibrate_offset
calibrate_offset(S, fail) ==
    IF validate_ready_for_calibration(S) /= "none"
    THEN Raise(S, validate_ready_for_calibration(S))
    ELSE Then(one_frame_session(S, fail), LAMBDA T :
            [T EXCEPT !.context.offset_m = Some(Measured)])

\* mutant: only more than one close-range spec is refused
filter_close_range_spec_at_most_one(specs) ==
    LET close_range_specs ==
            SelectSeq(specs, LAMBDA spec : spec.measurement_type = "CLOSE_RANGE")
    IN  IF Len(close_range_specs) > 1 THEN "ValueError" ELSE "none"

\* Detector._filter_close_range_spec: the exception raised, or "none"
filter_close_range_spec(specs) ==
    LET close_range_specs ==
            SelectSeq(specs, LAMBDA spec : spec.measurement_type = "CLOSE_RANGE")
    IN  IF Len(close_range_specs) /= 1 THEN "ValueError" ELSE "none"

\* The Processor's result in LEAKAGE_CALIBRATION mode: the measured direct
\* leakage and the phase-jitter reference derived from it.
leakage_calibration_result ==
    [direct_leakage |-> Some(Measured), phase_jitter_comp_reference |-> Some(Measured)]

\* l.239-244 of calibrate_close_range: the writes to the context, in the
\* order of the code, with the assertion between the first two
store_close_range_calibration(S) ==
    Then([S EXCEPT !.context.direct_leakage = leakage_calibration_result.direct_leakage],
         LAMBDA T :
            IF leakage_calibration_result.phase_jitter_comp_reference = None
            THEN Raise(T, "AssertionError")
            ELSE [T EXCEPT !.context.phase_jitter_comp_reference =
                               leakage_calibration_result.phase_jitter_comp_reference,
                           !.context.close_range_session_config_used = Some(session_config),
                           !.context.recorded_thresholds_mean_sweep = None,
                           !.context.recorded_thresholds_noise_std = None])

\* mutant: the call of _validate_ready_for_calibration is missing
calibrate_close_range_unvalidated(S, fail) ==
    IF filter_close_range_spec(processor_specs) /= "none"
    THEN Raise(S, filter_close_range_spec(processor_specs))
    ELSE Then(one_frame_session(S, fail), LAMBDA T : store_close_range_calibration(T))

\* mutant: the direct leakage is stored as soon as the frame is read, before
\* the session is stopped
calibrate_close_range_stores_early(S, fail) ==
    IF validate_ready_for_calibration(S) /= "none"
    THEN Raise(S, validate_ready_for_calibration(S))
    ELSE IF filter_close_range_spec(processor_specs) /= "none"
    THEN Raise(S, filter_close_range_spec(processor_specs))
    ELSE Then(client_setup_session(S, fail), LAMBDA T1 :
         Then(client_start_session(T1, fail), LAMBDA T2 :
         Then(client_get_next(T2, fail), LAMBDA T3 :
         Then(client_stop_session(
                  [T3 EXCEPT !.context.direct_leakage =
                                 leakage_calibration_result.direct_leakage], fail),
              LAMBDA T4 : store_close_range_calibration(T4)))))

\* Detector.calibrate_close_range
calibrate_close_range(S, fail) ==
    IF validate_ready_for_calibration(S) /= "none"
    THEN Raise(S, validate_ready_for_calibration(S))
    ELSE IF filter_close_range_spec(processor_specs) /= "none"
    THEN Raise(S, filter_close_range_spec(processor_specs))
    ELSE Then(one_frame_session(S, fail), LAMBDA T : store_close_range_calibration(T))

\* Detector._add_context_to_processor_spec: <<exception or "none", number of
\* specs returned>>; zip() stops at the shorter of specs and bg_noise_std
add_context_to_processor_spec(ctx, specs) ==
    IF ctx.bg_noise_std = None THEN <<"AssertionError", 0>>
    ELSE LET n == Min2(Len(specs), Len(ctx.bg_noise_std[1]))
             mean == ctx.recorded_thresholds_mean_sweep
             std == ctx.recorded_thresholds_noise_std
         IN  IF n = 0 \/ (mean = None /\ std = None) THEN <<"none", n>>
             ELSE IF mean = None \/ std = None THEN <<"AssertionError", 0>>
             ELSE IF n > Len(mean[1]) \/ n > Len(std[1]) THEN <<"IndexError", 0>>
             ELSE <<"none", n>>

RECURSIVE get_frames(_, _, _)
get_frames(S, fail, frames) ==
    IF frames = 0 THEN S
    ELSE Then(client_get_next(S, fail), LAMBDA T : get_frames(T, fail, frames - 1))

\* Detector.record_threshold
record_threshold(S, fail) ==
    IF validate_ready_for_calibration(S) /= "none"
    THEN Raise(S, validate_ready_for_calibration(S))
    ELSE
    LET frames == detector_config.num_frames_in_recorded_threshold
        S1 == calibrate_noise(S, fail)
        specs == add_context_to_processor_spec(S1.context, processor_specs)
        S2 == Then(S1, LAMBDA T : IF specs[1] /= "none" THEN Raise(T, specs[1]) ELSE T)
        S3 == Then(S2, LAMBDA T : client_setup_session(T, fail))
        S4 == Then(S3, LAMBDA T : client_start_session(T, fail))
        S5 == Then(S4, LAMBDA T : get_frames(T, fail, frames))
        S6 == Then(S5, LAMBDA T : client_stop_session(T, fail))
        S7 == Then(S6, LAMBDA T : IF frames = 0 THEN Raise(T, "AssertionError") ELSE T)
    IN  Then(S7, LAMBDA T :
            [T EXCEPT !.context.reference_temperature = Some(Measured),
                      !.context.recorded_thresholds_mean_sweep =
                          Some([i \in 1..specs[2] |-> Measured]),
                      !.context.recorded_thresholds_noise_std =
                          Some([i \in 1..specs[2] |-> Measured]),
                      !.context.recorded_threshold_session_config_used =
                          Some(session_config)])

\* Detector.start once the detector is found ready: the calibrations, the
\* session setup and the start of the session (without a recorder)
start_when_ready(S, skip_calibration, fail) ==
    LET S1 == IF skip_calibration THEN S ELSE calibrate_noise(S, fail)
        S2 == IF skip_calibration THEN S1
              ELSE Then(S1, LAMBDA T : calibrate_offset(T, fail))
        specs == add_context_to_processor_spec(S2.context, processor_specs)
        S3 == Then(S2, LAMBDA T : IF specs[1] /= "none" THEN Raise(T, specs[1]) ELSE T)
        S4 == Then(S3, LAMBDA T : client_setup_session(T, fail))
        S5 == Then(S4, LAMBDA T :
                  IF T.context.offset_m = None THEN Raise(T, "AssertionError") ELSE T)
        S6 == Then(S5, LAMBDA T : [T EXCEPT !.aggregator = Some(specs[2])])
        S7 == Then(S6, LAMBDA T : client_start_session(T, fail))
    IN  Then(S7, LAMBDA T : [T EXCEPT !.started = TRUE])

\* mutant: the readiness status is not consulted
start_without_status(S, skip_calibration, fail) ==
    IF S.started THEN Raise(S, "RuntimeError")
    ELSE start_when_ready(S, skip_calibration, fail)

\* Detector.start
start(S, skip_calibration, fail) ==
    IF S.started THEN Raise(S, "RuntimeError")
    ELSE
    LET status == get_detector_status(detector_config, S.context, sensor_id)
    IN  IF status.raised /= "none" THEN Raise(S, status.raised)
        ELSE IF ~status.ready_to_start THEN Raise(S, "RuntimeError")
        ELSE start_when_ready(S, skip_calibration, fail)

\* Detector.get_next
get_next(S, fail) ==
    IF ~S.started THEN Raise(S, "RuntimeError")
    ELSE IF S.aggregator = None THEN Raise(S, "AssertionError")
    ELSE Then(client_get_next(S, fail), LAMBDA T :
            [T EXCEPT !.returned = "DetectorResult"])

\* mutant: the check of self.started is missing
stop_unchecked(S, fail) ==
    Then(client_stop_session(S, fail), LAMBDA T :
        [T EXCEPT !.started = FALSE, !.returned = "recorder_result"])

\* mutant: self.started is not reset
stop_keeps_started(S, fail) ==
    IF ~S.started THEN Raise(S, "RuntimeError")
    ELSE Then(client_stop_session(S, fail), LAMBDA T :
            [T EXCEPT !.returned = "recorder_result"])

\* Detector.stop
stop(S, fail) ==
    IF ~S.started THEN Raise(S, "RuntimeError")
    ELSE Then(client_stop_session(S, fail), LAMBDA T :
            [T EXCEPT !.started = FALSE, !.returned = "recorder_result"])

(***************************************************************************)
(* Initial state: Detector.__init__ with a default context.                *)
(***************************************************************************)
\* q_status before get_detector_status has been evaluated
NotEvaluated ==
    [raised |-> "none", detector_state |-> "NOT_EVALUATED",
     ready_to_calibrate_close_range |-> FALSE,
     ready_to_record_threshold |-> FALSE,
     ready_to_start |-> FALSE]

(***************************************************************************)
(* unwrap_ticks (a121._core.utils).                                        *)
(***************************************************************************)
\* the wrap period of the small ticks of the model
TickLimit == 4
\* the wrap period of the unit tests
TestLimit == 100
\* the longest batch
MaxBatch == 2
\* the longest chain of calls
MaxCalls == 3

SeqMax(seq) == CHOOSE m \in Range(seq) : \A x \in Range(seq) : m >= x
SeqMin(seq) == CHOOSE m \in Range(seq) : \A x \in Range(seq) : m <= x

Returned(ticks, maximum) == [ticks |-> ticks, maximum |-> maximum, raised |-> "none"]
ValueError == [ticks |-> << >>, maximum |-> None, raised |-> "ValueError"]
NotCalled == [ticks |-> << >>, maximum |-> None, raised |-> "not called"]

\* mutant: a span of exactly half the wrap period counts as wrapped
unwrap_batch_from_half(ticks, limit) ==
    IF SeqMax(ticks) - SeqMin(ticks) >= FloorDiv(limit, 2)
    THEN [i \in 1..Len(ticks) |->
             IF ticks[i] < FloorDiv(limit, 2) THEN ticks[i] + limit ELSE ticks[i]]
    ELSE ticks

\* mutant: the low ticks of a wrapped batch get half a period added
unwrap_batch_by_half_period(ticks, limit) ==
    IF SeqMax(ticks) - SeqMin(ticks) > FloorDiv(limit, 2)
    THEN [i \in 1..Len(ticks) |->
             IF ticks[i] < FloorDiv(limit, 2) THEN ticks[i] + FloorDiv(limit, 2) ELSE ticks[i]]
    ELSE ticks

\* l.366-367: the low ticks of a batch that spans more than half the wrap
\* period get one period added
unwrap_batch(ticks, limit) ==
    IF SeqMax(ticks) - SeqMin(ticks) > FloorDiv(limit, 2)
    THEN [i \in 1..Len(ticks) |->
             IF ticks[i] < FloorDiv(limit, 2) THEN ticks[i] + limit ELSE ticks[i]]
    ELSE ticks

\* l.370: the number of periods to add
num_wraps(ticks, minimum_tick, limit) ==
    SeqMax([i \in 1..Len(ticks) |-> FloorDiv(minimum_tick - ticks[i] - 1, limit) + 1])

\* mutant: the number of periods is the least, not the greatest, over the batch
add_wraps_least(ticks, minimum_tick, limit) ==
    [i \in 1..Len(ticks) |->
        SeqMin([j \in 1..Len(ticks) |-> FloorDiv(minimum_tick - ticks[j] - 1, limit) + 1])
            * limit + ticks[i]]

\* l.369-371: the same number of periods is added to every tick
add_wraps(ticks, minimum_tick, limit) ==
    [i \in 1..Len(ticks) |-> num_wraps(ticks, minimum_tick, limit) * limit + ticks[i]]

\* mutant: the bounds of the raw ticks are not checked
unwrap_ticks_unchecked(ticks, minimum_tick, limit) ==
    IF Len(ticks) = 0 THEN Returned(<< >>, None)
    ELSE \* the batch after l.366-367, then l.369-371, then l.373
         Apply(Apply(unwrap_batch(ticks, limit), LAMBDA batch :
                   IF minimum_tick = None THEN batch
                   ELSE add_wraps(batch, minimum_tick[1], limit)),
               LAMBDA unwrapped : Returned(unwrapped, Some(SeqMax(unwrapped))))

\* unwrap_ticks(ticks, minimum_tick, limit)
unwrap_ticks(ticks, minimum_tick, limit) ==
    IF Len(ticks) = 0 THEN Returned(<< >>, None)
    ELSE IF \E i \in 1..Len(ticks) : ticks[i] < 0 \/ ticks[i] >= limit THEN ValueError
    ELSE \* the batch after l.366-367, then l.369-371, then l.373
         Apply(Apply(unwrap_batch(ticks, limit), LAMBDA batch :
                   IF minimum_tick = None THEN batch
                   ELSE add_wraps(batch, minimum_tick[1], limit)),
               LAMBDA unwrapped : Returned(unwrapped, Some(SeqMax(unwrapped))))

\* no call of unwrap_ticks has been made
NoTicks ==
    /\ t_limit = TickLimit
    /\ t_ticks = << >>
    /\ t_passed = None
    /\ t_unwrapped = NotCalled
    /\ t_minimum_tick = None
    /\ t_previous_maximum = None
    /\ t_calls = 0

\* no stand-alone call of a function has been made
NoCalls ==
    /\ f_name = "none"
    /\ f_args = << >>
    /\ f_returned = << >>

(***************************************************************************)
(* gentry.py: times are in tenths of a second, distances in tenths of a    *)
(* metre.                                                                  *)
(***************************************************************************)
DISTANCE_THRESHOLD == 23
TIME_ACTIVE == 50
TIME_INACTIVE == 5
TIME_IDLE == 600

\* relay = [4, 22, 6, 26]
relay == <<4, 22, 6, 26>>

\* now() when the timers are initialised (l.97-99)
Epoch == 1000

\* the main loop has not been entered
NoLoop ==
    /\ clock = Epoch
    /\ left = FALSE
    /\ right = FALSE
    /\ out1 = TRUE
    /\ out2 = FALSE
    /\ activetime = Epoch + TIME_ACTIVE
    /\ inactivetime = 0
    /\ idletime = Epoch + TIME_IDLE
    /\ gpio = [pin \in {relay[i] : i \in 1..4} |-> FALSE]
    /\ printed = << >>
    /\ sent = << >>
    /\ detected = None
    /\ exitcode = None

\* the Client is constructed (l.91), the sensors are not (l.94-95): the
\* names assigned in the loop are unbound, the sweeps are the empty lists of
\* l.69-70 (reading 0)
NoData ==
    /\ pc = [at |-> "init", side |-> "left"]
    /\ iterations = 0
    /\ lock = "none"
    /\ sensordata = 0
    /\ dist_left = None
    /\ sweep_left = Some(0)
    /\ thres_left = None
    /\ dist_right = None
    /\ sweep_right = Some(0)
    /\ thres_right = None
    /\ mqtt = "idle"
    /\ requests = 0
    /\ built = None

NoGentry == NoLoop /\ NoData

\* no call of _create_group_plans has been made
NoPlans ==
    /\ p_config = DetectorConfig(250, 3000, "CFAR", 5)
    /\ p_plans = None

\* Detector.__init__(client, sensor_id, detector_config) returning
Constructed(sid, config) ==
    /\ sensor_id = sid
    /\ detector_config = config
    /\ planning_raises(config) = "none"
    /\ session_config = planned(config, sid)[1]
    /\ processor_specs = planned(config, sid)[2]
    /\ context = DetectorContext
    /\ started = FALSE
    /\ aggregator = None
    /\ client_session = "idle"
    /\ op = "init"
    /\ raised = "none"
    /\ calls = 0
    /\ returned = "None"
    /\ e2e = IF /\ config.start_m = 250
                /\ config.end_m = 3000
                /\ config.threshold_method /= "RECORDED"
             THEN 0 ELSE -1

Init ==
    /\ plan_table = PlanTable(DetConfigs, SensorIds)
    /\ entity_validation = TRUE
    /\ \E sid \in SensorIds, config \in DetConfigs : Constructed(sid, config)
    /\ q_config = detector_config
    /\ q_context = DetectorContext
    /\ q_sensor_id = sensor_id
    /\ q_status = NotEvaluated
    /\ NoTicks
    /\ NoPlans
    /\ NoCalls
    /\ NoGentry

(***************************************************************************)
(* Actions: one per public operation of Detector.                          *)
(***************************************************************************)
\* the state after operation name has ended in S
Finish(name, S, default_call) ==
    /\ started' = S.started
    /\ context' = S.context
    /\ client_session' = S.client_session
    /\ aggregator' = S.aggregator
    /\ op' = name
    /\ raised' = S.raised
    /\ calls' = S.calls
    /\ returned' = S.returned
    /\ e2e' = IF /\ e2e \in 0..(Len(E2E) - 1)
                 /\ E2E[e2e + 1] = name
                 /\ default_call
                 /\ S.raised /= "ClientError"
              THEN e2e + 1 ELSE -1
    /\ UNCHANGED <<sensor_id, detector_config, session_config, processor_specs,
                   env_vars, query_vars, tick_vars, plan_vars, call_vars, gentry_vars>>

\* fail ranges over the client calls the operation can make
CalibrateNoise ==
    \E fail \in 0..4 :
        Finish("calibrate_noise", calibrate_noise(Current, fail), TRUE)

CalibrateOffset ==
    \E fail \in 0..4 :
        Finish("calibrate_offset", calibrate_offset(Current, fail), TRUE)

CalibrateCloseRange ==
    \E fail \in 0..4 :
        Finish("calibrate_close_range", calibrate_close_range(Current, fail), TRUE)

RecordThreshold ==
    \E fail \in 0..(7 + NumFrames) :
        Finish("record_threshold", record_threshold(Current, fail), TRUE)

Start ==
    \E skip_calibration \in BOOLEAN :
        \E fail \in 0..(IF skip_calibration THEN 2 ELSE 10) :
            Finish("start", start(Current, skip_calibration, fail), ~skip_calibration)

GetNext ==
    \E fail \in 0..1 :
        Finish("get_next", get_next(Current, fail), TRUE)

Stop ==
    \E fail \in 0..1 :
        Finish("stop", stop(Current, fail), TRUE)

\* Detector.update_config: the session config and the processor specs are
\* replaced by those of the config passed, unless planning raises
UpdateConfig ==
    \E config \in DetConfigs :
        /\ op' = "update_config"
        /\ raised' = planning_raises(config)
        /\ calls' = 0
        /\ returned' = "None"
        /\ e2e' = -1
        /\ IF planning_raises(config) /= "none"
           THEN UNCHANGED <<session_config, processor_specs>>
           ELSE /\ session_config' = planned(config, sensor_id)[1]
                /\ processor_specs' = planned(config, sensor_id)[2]
        /\ UNCHANGED <<sensor_id, detector_config, context, started, aggregator,
                       client_session, env_vars, query_vars, tick_vars, plan_vars, call_vars, gentry_vars>>

Next ==
    \/ CalibrateNoise
    \/ CalibrateOffset
    \/ CalibrateCloseRange
    \/ RecordThreshold
    \/ Start
    \/ GetNext
    \/ Stop
    \/ UpdateConfig

Spec == Init /\ [][Next]_vars

(***************************************************************************)
(* get_detector_status as a function of its arguments: the arguments are   *)
(* drawn initially and the class method is evaluated for them.             *)
(***************************************************************************)
InitStatus ==
    /\ plan_table = PlanTable(QueryConfigs \cup QuerySessionConfigs \cup {DetectorConfig(250, 3000, "CFAR", 5)},
                              QuerySensorIds)
    /\ q_context \in QueryContexts
    /\ entity_validation \in BOOLEAN
    /\ Constructed(1, DetectorConfig(250, 3000, "CFAR", 5))
    /\ q_config \in QueryConfigs
    /\ q_sensor_id \in QuerySensorIds
    /\ q_status = NotEvaluated
    /\ NoTicks
    /\ NoPlans
    /\ NoCalls
    /\ NoGentry

GetDetectorStatus ==
    /\ q_status = NotEvaluated
    /\ q_status' = get_detector_status(q_config, q_context, q_sensor_id)
    /\ UNCHANGED <<detector_vars, env_vars, q_config, q_context, q_sensor_id,
                   tick_vars, plan_vars, call_vars, gentry_vars>>

NextStatus == GetDetectorStatus

StatusSpec == InitStatus /\ [][NextStatus]_vars

(***************************************************************************)
(* Calibration by the ready flags: a Detector is built for a config with a *)
(* context that an earlier Detector has left, and its user runs the        *)
(* calibration the status flags as ready until the status is OK, then      *)
(* starts.  The client answers every call.                                 *)
(***************************************************************************)
\* the configs of the detector and of the earlier detector
ReadyConfigs ==
    { DetectorConfig(250, 3000, "RECORDED", 5),
      DetectorConfig(250, 3000, "RECORDED", 1),
      DetectorConfig(250, 3000, "RECORDED", 3),
      DetectorConfig(100, 3000, "RECORDED", 5),
      DetectorConfig(100, 3000, "CFAR", 5),
      DetectorConfig(250, 3000, "CFAR", 5) }

\* the context a Detector of config previous leaves: leakage tells whether
\* it calibrated the close range, threshold whether it never recorded a
\* threshold, recorded one or recorded one and calibrated the close range
\* after it
LeftContext(previous, leakage, threshold) ==
    [DetectorContext EXCEPT
        !.direct_leakage = IF leakage THEN Some(Measured) ELSE None,
        !.phase_jitter_comp_reference = IF leakage THEN Some(Measured) ELSE None,
        !.close_range_session_config_used =
            IF leakage THEN Some(planned(previous, 1)[1]) ELSE None,
        !.recorded_thresholds_mean_sweep =
            IF threshold = "recorded"
            THEN Some([i \in 1..Len(planned(previous, 1)[2]) |-> Measured]) ELSE None,
        !.recorded_thresholds_noise_std =
            IF threshold = "recorded"
            THEN Some([i \in 1..Len(planned(previous, 1)[2]) |-> Measured]) ELSE None,
        !.recorded_threshold_session_config_used =
            IF threshold = "never" THEN None ELSE Some(planned(previous, 1)[1]),
        !.reference_temperature = IF threshold = "never" THEN None ELSE Some(Measured)]

\* Detector.__init__(client, sensor_id, detector_config, context) returning
ConstructedWith(sid, config, ctx) ==
    /\ sensor_id = sid
    /\ detector_config = config
    /\ planning_raises(config) = "none"
    /\ session_config = planned(config, sid)[1]
    /\ processor_specs = planned(config, sid)[2]
    /\ context = ctx
    /\ started = FALSE
    /\ aggregator = None
    /\ client_session = "idle"
    /\ op = "init"
    /\ raised = "none"
    /\ calls = 0
    /\ returned = "None"
    /\ e2e = -1

InitReady ==
    /\ plan_table = PlanTable(ReadyConfigs, SensorIds)
    /\ entity_validation = TRUE
    /\ \E config \in ReadyConfigs, previous \in ReadyConfigs, leakage \in BOOLEAN,
          threshold \in {"never", "recorded", "cleared"} :
            /\ leakage => has_close_range_measurement(previous)
            /\ (threshold = "cleared") => leakage
            /\ ConstructedWith(1, config, LeftContext(previous, leakage, threshold))
    /\ q_config = detector_config
    /\ q_context = DetectorContext
    /\ q_sensor_id = sensor_id
    /\ q_status = NotEvaluated
    /\ NoTicks
    /\ NoPlans
    /\ NoCalls
    /\ NoGentry

\* the status the user reads
ReadyStatus == get_detector_status(detector_config, context, sensor_id)

\* the user runs record_threshold when it is flagged ready
RecordThresholdWhenReady ==
    /\ ~started
    /\ ReadyStatus.detector_state /= "OK"
    /\ ReadyStatus.ready_to_record_threshold
    /\ Finish("record_threshold", record_threshold(Current, 0), FALSE)

\* otherwise calibrate_close_range when that is flagged ready
CalibrateCloseRangeWhenReady ==
    /\ ~started
    /\ ReadyStatus.detector_state /= "OK"
    /\ ~ReadyStatus.ready_to_record_threshold
    /\ ReadyStatus.ready_to_calibrate_close_range
    /\ Finish("calibrate_close_range", calibrate_close_range(Current, 0), FALSE)

\* and start() once the status is OK
StartWhenOK ==
    /\ ~started
    /\ ReadyStatus.detector_state = "OK"
    /\ Finish("start", start(Current, FALSE, 0), FALSE)

NextReady ==
    \/ RecordThresholdWhenReady
    \/ CalibrateCloseRangeWhenReady
    \/ StartWhenOK

\* a calibration that is flagged ready is run, and again after it
ReadySpec == InitReady /\ [][NextReady]_vars /\ WF_vars(NextReady)

(***************************************************************************)
(* unwrap_ticks as its caller uses it: the wrap period and the previous    *)
(* maximum known at the start are drawn initially; each call gets a batch  *)
(* of raw ticks and the rolling maximum, which the maximum it returns      *)
(* replaces.                                                               *)
(***************************************************************************)
\* the batches of the unit tests (limit 100)
TestBatches ==
    { << >>, <<-1>>, <<100>>, <<0>>, <<99>>, <<10>>, <<40, 60>>, <<90, 0>>,
      <<90, 10>>, <<10, 90>> }

\* the batches of the model: those of the unit tests for their period, every
\* batch of ticks from -1 to the limit for the small one
Batches(limit) ==
    IF limit = TestLimit THEN TestBatches
    ELSE UNION {[1..n -> -1..limit] : n \in 0..MaxBatch}

MinimumTicks(limit) ==
    IF limit = TestLimit THEN {0, 185, 195, 209, 210, 211} ELSE 0..(2 * limit)

InitTicks ==
    /\ plan_table = PlanTable({DetectorConfig(250, 3000, "CFAR", 5)}, SensorIds)
    /\ entity_validation = TRUE
    /\ Constructed(1, DetectorConfig(250, 3000, "CFAR", 5))
    /\ q_config = detector_config
    /\ q_context = DetectorContext
    /\ q_sensor_id = sensor_id
    /\ q_status = NotEvaluated
    /\ NoPlans
    /\ NoCalls
    /\ NoGentry
    /\ t_limit \in {TickLimit, TestLimit}
    /\ t_minimum_tick \in {None} \cup {Some(m) : m \in MinimumTicks(t_limit)}
    /\ t_previous_maximum = t_minimum_tick
    /\ t_ticks = << >>
    /\ t_passed = None
    /\ t_unwrapped = NotCalled
    /\ t_calls = 0

\* one call; a call that raises leaves the caller's rolling maximum as it was
UnwrapTicks ==
    /\ t_calls < MaxCalls
    /\ \E batch \in Batches(t_limit) :
           \E result \in {unwrap_ticks(batch, t_minimum_tick, t_limit)} :
               /\ t_ticks' = batch
               /\ t_passed' = t_minimum_tick
               /\ t_unwrapped' = result
               /\ t_minimum_tick' = IF result.raised = "none" THEN result.maximum
                                    ELSE t_minimum_tick
               /\ t_previous_maximum' =
                      IF result.maximum = None THEN t_previous_maximum
                      ELSE IF t_previous_maximum = None THEN result.maximum
                      ELSE Some(Max2(result.maximum[1], t_previous_maximum[1]))
    /\ t_calls' = t_calls + 1
    /\ UNCHANGED <<t_limit, detector_vars, env_vars, query_vars, plan_vars, call_vars, gentry_vars>>

NextTicks == UnwrapTicks

TickSpec == InitTicks /\ [][NextTicks]_vars

(***************************************************************************)
(* _create_group_plans as a function of the config: a config with a valid  *)
(* range is drawn initially and the class method is evaluated for it.      *)
(***************************************************************************)
PlanStarts == {50, 100, 200, 300, 700, 1500}
PlanEnds == {100, 140, 400, 800, 3000, 10000}
PlanProfiles == 1..5

\* the configs planned: those the range check accepts whose range is not
\* empty or reversed
PlanConfigs ==
    { config \in { DetectorConfig(s, e, tm, profile) :
                       s \in PlanStarts, e \in PlanEnds,
                       tm \in ThresholdMethods, profile \in PlanProfiles } :
          valid_detector_config_range(config) /\ config.start_m < config.end_m }

InitPlans ==
    /\ plan_table = PlanTable({DetectorConfig(250, 3000, "CFAR", 5)}, SensorIds)
    /\ entity_validation = TRUE
    /\ Constructed(1, DetectorConfig(250, 3000, "CFAR", 5))
    /\ q_config = detector_config
    /\ q_context = DetectorContext
    /\ q_sensor_id = sensor_id
    /\ q_status = NotEvaluated
    /\ NoTicks
    /\ NoCalls
    /\ NoGentry
    /\ p_config \in PlanConfigs
    /\ p_plans = None

CreateGroupPlans ==
    /\ p_plans = None
    /\ p_plans' = Some(create_group_plans(p_config))
    /\ UNCHANGED <<p_config, detector_vars, env_vars, query_vars, tick_vars, call_vars, gentry_vars>>

NextPlans == CreateGroupPlans

PlanSpec == InitPlans /\ [][NextPlans]_vars

(***************************************************************************)
(* Utilities of a121._core.utils.                                          *)
(***************************************************************************)
\* is_multiple_of(multiplier, product)
is_multiple_of(multiplier, product) ==
    product >= multiplier /\ product % multiplier = 0

\* is_divisor_of(divisor, dividend)
is_divisor_of(divisor, dividend) == is_multiple_of(dividend, divisor)

\* An extended structure is a list of groups; a group (a dict, which keeps
\* the order of insertion) is a sequence of <<sensor id, value>> entries with
\* distinct sensor ids.
RECURSIVE iterate_groups(_, _)
\* the items of the groups from index group_id (counted from 0) on
iterate_groups(structure, group_id) ==
    IF group_id >= Len(structure) THEN << >>
    ELSE [k \in 1..Len(structure[group_id + 1]) |->
             <<group_id, structure[group_id + 1][k][1], structure[group_id + 1][k][2]>>]
         \o iterate_groups(structure, group_id + 1)

\* mutant: the groups are numbered from 1
iterate_extended_structure_from_one(structure) ==
    [k \in 1..Len(iterate_groups(structure, 0)) |->
        <<iterate_groups(structure, 0)[k][1] + 1,
          iterate_groups(structure, 0)[k][2],
          iterate_groups(structure, 0)[k][3]>>]

\* iterate_extended_structure(structure): the items (group id, sensor id,
\* element) in the order they are yielded
iterate_extended_structure(structure) == iterate_groups(structure, 0)

Created(structure) == [structure |-> structure, raised |-> "none"]
CreateRaises == [structure |-> << >>, raised |-> "ValueError"]

\* the sensor ids of a group
Keys(group) == {group[k][1] : k \in 1..Len(group)}

RECURSIVE create_from(_, _, _)
\* the loop of create_extended_structure over the items left, structure and
\* current_group_index being what the items before them have made;
\* current_group is the last group of structure
create_from(items, structure, current_group_index) ==
    IF items = << >> THEN Created(structure)
    ELSE IF current_group_index = None /\ Head(items)[1] /= 0 THEN CreateRaises
    ELSE IF /\ current_group_index /= None
            /\ Head(items)[1] /= current_group_index[1]
            /\ Head(items)[1] /= current_group_index[1] + 1
    THEN CreateRaises
    ELSE Apply(IF current_group_index = None \/ Head(items)[1] /= current_group_index[1]
               THEN Append(structure, << >>) ELSE structure,
               LAMBDA opened :
                   IF Head(items)[2] \in Keys(opened[Len(opened)]) THEN CreateRaises
                   ELSE create_from(Tail(items),
                            [opened EXCEPT ![Len(opened)] =
                                 Append(@, <<Head(items)[2], Head(items)[3]>>)],
                            Some(Len(opened) - 1)))

\* create_extended_structure(items)
create_extended_structure(items) == create_from(items, << >>, None)

(***************************************************************************)
(* The calibration snapshot.  An h5py group is a function from the names   *)
(* of its members to datasets and groups; the member index_<i> of a list   *)
(* group has the name <<"index", i>>.  A JSON text is the set of the       *)
(* <<name, value>> pairs of the object it stands for.                      *)
(***************************************************************************)
Dataset(data) == [kind |-> "dataset", data |-> data]
Group(members) == [kind |-> "group", members |-> members]

\* AlgoConfigBase.to_json, SessionConfig.to_json
to_json(obj) == {<<k, obj[k]>> : k \in DOMAIN obj}

\* AlgoConfigBase.from_json, SessionConfig.from_json
from_json(json) ==
    [k \in {pair[1] : pair \in json} |-> (CHOOSE pair \in json : pair[1] = k)[2]]

\* attrs.fields(DetectorContext), in the order of declaration
ContextFields ==
    <<"offset_m", "direct_leakage", "phase_jitter_comp_reference",
      "recorded_thresholds_mean_sweep", "recorded_thresholds_noise_std",
      "bg_noise_std", "recorded_threshold_session_config_used",
      "close_range_session_config_used", "reference_temperature">>

\* the fields _record_algo_data and _load_algo_data handle as lists
ListFields ==
    <<"recorded_thresholds_mean_sweep", "recorded_thresholds_noise_std", "bg_noise_std">>

\* the type of the value a field of DetectorContext holds when it is present
type_of(k) ==
    CASE k = "offset_m" -> "float"
      [] k = "reference_temperature" -> "int"
      [] k \in {"direct_leakage", "phase_jitter_comp_reference"} -> "ndarray"
      [] k \in {"recorded_threshold_session_config_used",
                "close_range_session_config_used"} -> "SessionConfig"
      [] OTHER -> "list"

\* _record_algo_data: the loop over attrs.asdict(context).items(); the
\* dataset of a field of the context
context_dataset(k, v) ==
    IF type_of(k) = "SessionConfig" THEN Dataset(to_json(v)) ELSE Dataset(v)

\* _record_algo_data: the group of a list field, index_<i> for the i-th item
list_group(list) ==
    Group([name \in {<<"index", i>> : i \in 0..(Len(list) - 1)} |->
              Dataset(list[name[2] + 1])])

Recorded(algo_group) == [raised |-> "none", algo_group |-> algo_group]
RecordRaises == [raised |-> "RuntimeError", algo_group |-> << >>]

\* _record_algo_data(algo_group, sensor_id, detector_config, context): the
\* members of algo_group when it returns
record_algo_data(sid, config, ctx) ==
    IF \E i \in 1..Len(ContextFields) :
           /\ ContextFields[i] \notin Range(ListFields)
           /\ ctx[ContextFields[i]] /= None
           /\ type_of(ContextFields[i]) \notin {"SessionConfig", "ndarray", "float", "int"}
    THEN RecordRaises
    ELSE Recorded(
        [name \in {"sensor_id", "detector_config", "context"} |->
            CASE name = "sensor_id" -> Dataset(sid)
              [] name = "detector_config" -> Dataset(to_json(config))
              [] name = "context" ->
                    Group([k \in {f \in Range(ContextFields) : ctx[f] /= None} |->
                              IF k \in Range(ListFields)
                              THEN list_group(ctx[k][1])
                              ELSE context_dataset(k, ctx[k][1])])])

RECURSIVE group_items_from(_, _)
\* the loop of _get_group_items from index i on
group_items_from(group, i) ==
    IF <<"index", i>> \notin DOMAIN group.members THEN << >>
    ELSE <<group.members[<<"index", i>>].data>> \o group_items_from(group, i + 1)

\* mutant: the items are read from index_1 on
get_group_items_from_one(group) == group_items_from(group, 1)

\* _get_group_items(group)
get_group_items(group) == group_items_from(group, 0)

\* _load_algo_data: field_map, the fields read as datasets and whether
\* SessionConfig.from_json converts them
field_map ==
    [offset_m |-> FALSE,
     direct_leakage |-> FALSE,
     reference_temperature |-> FALSE,
     phase_jitter_comp_reference |-> FALSE,
     recorded_threshold_session_config_used |-> TRUE,
     close_range_session_config_used |-> TRUE]

\* _load_algo_data: context_dict[k] of a member k of context_group
context_value(k, context_group) ==
    IF k \in DOMAIN field_map
    THEN IF field_map[k] THEN from_json(context_group[k].data) ELSE context_group[k].data
    ELSE get_group_items(context_group[k])

Loaded(sid, config, ctx) ==
    [raised |-> "none", sensor_id |-> sid, config |-> config, context |-> ctx]
LoadRaises ==
    [raised |-> "Exception", sensor_id |-> 0, config |-> << >>, context |-> << >>]

\* _load_algo_data(algo_group)
load_algo_data(algo_group) ==
    IF DOMAIN algo_group["context"].members \ Range(ContextFields) /= {}
    THEN LoadRaises
    ELSE Loaded(algo_group["sensor_id"].data,
                from_json(algo_group["detector_config"].data),
                [k \in Range(ContextFields) |->
                    IF /\ k \in DOMAIN algo_group["context"].members
                       /\ k \in DOMAIN field_map \cup Range(ListFields)
                    THEN Some(context_value(k, algo_group["context"].members))
                    ELSE None])

(***************************************************************************)
(* ModuleCommunication (sensor.py): polling the status register.  A 32-bit *)
(* register value is the pair <<high half, low half>> of its 16-bit        *)
(* halves; times are in tenths of a second.                                *)
(***************************************************************************)
RECURSIVE BitAnd16(_, _)
\* a & b of two 16-bit values
BitAnd16(a, b) ==
    IF a = 0 \/ b = 0 THEN 0
    ELSE (a % 2) * (b % 2) + 2 * BitAnd16(a \div 2, b \div 2)

\* a & b of two register values
BitAnd(a, b) == <<BitAnd16(a[1], b[1]), BitAnd16(a[2], b[2])>>

\* ERROR_MASK = 0xFFFF0000
ERROR_MASK == <<65535, 0>>
\* ACTIVATED_AND_CREATED = 0x3
ACTIVATED_AND_CREATED == <<0, 3>>
\* DATA_READY = 0x00000100
DATA_READY == <<0, 256>>

\* ModuleCommunication._check_error: the exception it raises, or "none"; the
\* ModuleError of l.94 is constructed and dropped
check_error(status) ==
    IF BitAnd(status, ERROR_MASK) /= <<0, 0>> THEN "none" ELSE "none"

\* ModuleCommunication._check_timeout for the time elapsed since start
check_timeout(elapsed, max_time) ==
    IF elapsed > max_time THEN "TimeoutError" ELSE "none"

Waited(outcome, polls) == [outcome |-> outcome, polls |-> polls]

RECURSIVE wait_from(_, _, _, _)
\* the loop of _wait_status_set from its k-th pass on; reads[k] is the value
\* register_read(0x6) returns in that pass and the time elapsed when
\* _check_timeout looks at the clock.  The outcome is "polling" when the
\* loop is still running after the last read given.
wait_from(wanted_bits, max_time, reads, k) ==
    IF k > Len(reads) THEN Waited("polling", Len(reads))
    ELSE IF check_timeout(reads[k].elapsed, max_time) /= "none"
    THEN Waited(check_timeout(reads[k].elapsed, max_time), k)
    ELSE IF check_error(reads[k].status) /= "none"
    THEN Waited(check_error(reads[k].status), k)
    ELSE IF BitAnd(reads[k].status, wanted_bits) = wanted_bits
    THEN Waited("returned", k)
    ELSE wait_from(wanted_bits, max_time, reads, k + 1)

\* ModuleCommunication._wait_status_set(wanted_bits, max_time)
wait_status_set(wanted_bits, max_time, reads) == wait_from(wanted_bits, max_time, reads, 1)

\* ModuleCommunication.wait_start()
wait_start(reads) == wait_status_set(ACTIVATED_AND_CREATED, 30, reads)

\* ModuleCommunication.wait_for_data(max_time)
wait_for_data(max_time, reads) == wait_status_set(DATA_READY, max_time, reads)

(***************************************************************************)
(* Client (client.py): the handler of a received MQTT message.  A payload  *)
(* is the record of whether its bytes are UTF-8 and of the JSON value the  *)
(* text holds (None when the text is not JSON).  A JSON value is           *)
(* <<"object", function of its keys>>, <<"array", sequence>>,              *)
(* <<"string", s>>, <<"number", n>> or <<"null">>.  A callback is None or  *)
(* the outcome of calling it.                                              *)
(***************************************************************************)
Payload(utf8, json) == [utf8 |-> utf8, json |-> json]

JObject(members) == <<"object", members>>
JArray(items) == <<"array", items>>
JString(str) == <<"string", str>>
JNumber(n) == <<"number", n>>
JNull == <<"null">>

\* the outcome of an expression: the exception raised ("none" when none) and
\* its value
Value(v) == [raised |-> "none", value |-> v]
Raises(exception) == [raised |-> exception, value |-> JNull]

\* message.payload.decode("utf-8") followed by json.loads
loads(payload) ==
    IF ~payload.utf8 THEN Raises("UnicodeDecodeError")
    ELSE IF payload.json = None THEN Raises("JSONDecodeError")
    ELSE Value(payload.json[1])

\* key in rmsg, for a key that is a str
contains(rmsg, key) ==
    CASE rmsg[1] = "object" -> Value(key \in DOMAIN rmsg[2])
      [] rmsg[1] = "array" -> Value(\E i \in 1..Len(rmsg[2]) : rmsg[2][i] = JString(key))
      [] OTHER -> Raises("TypeError")

\* rmsg[key], for a key that is a str, of a value that passed the "in" tests
getitem(rmsg, key) ==
    CASE rmsg[1] = "object" ->
             IF key \in DOMAIN rmsg[2] THEN Value(rmsg[2][key]) ELSE Raises("KeyError")
      [] OTHER -> Raises("TypeError")

\* "..." + v, the concatenation of a str with a JSON value
concatenates(v) == v[1] = "string"

\* the outcome of the handler: the exception that leaves it and the
\* messages published
Handled(exception, published) == [raised |-> exception, published |-> published]

\* a message published: its topic <pubtopic>/<src> and the fields of msg
Reply(pubtopic, src, id, method, result) == [topic |-> <<pubtopic, src>>, id |-> id, method |-> method, result |-> result]

\* self.client.publish(self.pubtopic + "/" + rmsg["src"], json.dumps(msg), 1, False)
publish(pubtopic, src, id, method, result) ==
    IF ~concatenates(src) THEN Handled("TypeError", << >>)
    ELSE Handled("none", <<Reply(pubtopic, src[2], id, method, result)>>)

\* the second half of the handler: the call of the callback for the method
respond(self, rmsg, callback) ==
    IF callback = None THEN Handled("none", << >>)
    ELSE IF callback[1].raised /= "none" THEN Handled(callback[1].raised, << >>)
    ELSE publish(self.pubtopic, rmsg[2]["src"], rmsg[2]["id"], rmsg[2]["method"], callback[1].value)

\* Client.__on_message(mqttc, obj, message)
on_message(self, payload) ==
    IF loads(payload).raised = "JSONDecodeError" THEN Handled("none", << >>)
    ELSE IF loads(payload).raised /= "none" THEN Handled(loads(payload).raised, << >>)
    ELSE IF contains(loads(payload).value, "method").raised /= "none"
    THEN Handled(contains(loads(payload).value, "method").raised, << >>)
    ELSE IF ~contains(loads(payload).value, "method").value THEN Handled("none", << >>)
    ELSE IF ~contains(loads(payload).value, "src").value THEN Handled("none", << >>)
    ELSE IF /\ self.verbose
            /\ getitem(loads(payload).value, "method").raised /= "none"
    THEN Handled(getitem(loads(payload).value, "method").raised, << >>)
    ELSE IF /\ self.verbose
            /\ \/ ~concatenates(getitem(loads(payload).value, "method").value)
               \/ ~concatenates(getitem(loads(payload).value, "src").value)
    THEN Handled("TypeError", << >>)
    ELSE IF getitem(loads(payload).value, "id").raised /= "none"
    THEN Handled(getitem(loads(payload).value, "id").raised, << >>)
    ELSE IF getitem(loads(payload).value, "method").raised /= "none"
    THEN Handled(getitem(loads(payload).value, "method").raised, << >>)
    ELSE IF getitem(loads(payload).value, "method").value = JString("status")
    THEN respond(self, loads(payload).value, self.status_cb)
    ELSE IF getitem(loads(payload).value, "method").value = JString("data")
    THEN respond(self, loads(payload).value, self.data_cb)
    ELSE Handled("none", << >>)

(***************************************************************************)
(* gentry.py: the main loop, one pass at a time.  All of l.136-158 reads   *)
(* the clock at the same time.                                             *)
(***************************************************************************)
\* the longest the model runs the loop
MaxTime == 110

\* now() of one evaluation of the outputs minus now() of the one before: the
\* 0.2 s the loop sleeps up to, or longer when a sensor takes its time
Durations == {2, 24, 52}

\* sensordata["distance"]: None, or the distance
Distances == {None, Some(0), Some(10), Some(DISTANCE_THRESHOLD), Some(DISTANCE_THRESHOLD + 1)}

\* mutant: a timer expires at its time
timerexpired_on_time(timer, t_now) == t_now >= timer

\* timerexpired(timer) when now() is t_now
timerexpired(timer, t_now) == t_now > timer

\* True if distance and distance <= DISTANCE_THRESHOLD else False
detects(distance) ==
    /\ distance /= None
    /\ distance[1] /= 0
    /\ distance[1] <= DISTANCE_THRESHOLD

\* the lines printed on changes (l.127-145); the third is
\* ("out2: " + "on") if out2 else "off"
lines(new_right, new_left, new_out2) ==
    (IF new_right /= right THEN <<IF new_right THEN "right: detect" ELSE "right: idle">> ELSE << >>)
        \o (IF new_left /= left THEN <<IF new_left THEN "left: detect" ELSE "left: idle">> ELSE << >>)
        \o (IF new_out2 /= out2 THEN <<IF new_out2 THEN "out2: on" ELSE "off">> ELSE << >>)

\* l.136-158 with left and right as this pass set them and now() = t_now
Outputs(new_left, new_right, t_now) ==
    /\ left' = new_left
    /\ right' = new_right
    /\ activetime' = IF new_left \/ new_right THEN t_now + TIME_ACTIVE ELSE activetime
    /\ IF timerexpired(activetime', t_now)
       THEN /\ out2' = FALSE
            /\ inactivetime' = t_now + TIME_INACTIVE
       ELSE /\ out2' = IF timerexpired(inactivetime, t_now) THEN TRUE ELSE out2
            /\ inactivetime' = inactivetime
    /\ printed' = lines(new_right, new_left, out2')
    /\ IF printed' /= << >>
       THEN /\ idletime' = t_now + TIME_IDLE
            /\ sent' = <<"activity">>
       ELSE IF timerexpired(idletime, t_now)
       THEN /\ idletime' = t_now + TIME_IDLE
            /\ sent' = <<"idle">>
       ELSE /\ idletime' = idletime
            /\ sent' = << >>
    /\ gpio' = [gpio EXCEPT ![relay[1]] = out1, ![relay[2]] = out2']
    /\ detected' = IF new_left \/ new_right THEN Some(t_now) ELSE detected

\* one pass of the while loop (l.109-161)
Iterate ==
    /\ exitcode = None
    /\ \E duration \in Durations, distance_left \in Distances, distance_right \in Distances :
          /\ clock + duration <= Epoch + MaxTime
          /\ clock' = clock + duration
          /\ Outputs(detects(distance_left), detects(distance_right), clock')
    /\ UNCHANGED <<out1, exitcode>>
    /\ UNCHANGED <<detector_vars, env_vars, query_vars, tick_vars, plan_vars, call_vars, data_vars>>

\* KeyboardInterrupt (l.163-168)
Interrupt ==
    /\ exitcode = None
    /\ gpio' = [pin \in DOMAIN gpio |-> FALSE]
    /\ exitcode' = Some(0)
    /\ UNCHANGED <<clock, left, right, out1, out2, activetime, inactivetime, idletime,
                   printed, sent, detected>>
    /\ UNCHANGED <<detector_vars, env_vars, query_vars, tick_vars, plan_vars, call_vars, data_vars>>

InitLoop ==
    /\ plan_table = PlanTable({DetectorConfig(250, 3000, "CFAR", 5)}, SensorIds)
    /\ entity_validation = TRUE
    /\ Constructed(1, DetectorConfig(250, 3000, "CFAR", 5))
    /\ q_config = detector_config
    /\ q_context = DetectorContext
    /\ q_sensor_id = sensor_id
    /\ q_status = NotEvaluated
    /\ NoTicks
    /\ NoPlans
    /\ NoCalls
    /\ NoGentry

NextLoop ==
    \/ Iterate
    \/ Interrupt

LoopSpec == InitLoop /\ [][NextLoop]_vars

(***************************************************************************)
(* gentry.py: the main thread storing the readings and the MQTT thread in  *)
(* data_buildmessage, statement by statement.  A reading is the number of  *)
(* the process() call that returned it.                                    *)
(***************************************************************************)
\* the passes of the loop and the data requests of the model
MaxIterations == 2
MaxRequests == 2

At(statement, side) == [at |-> statement, side |-> side]

DataOnly == UNCHANGED <<detector_vars, env_vars, query_vars, tick_vars, plan_vars, call_vars, loop_vars>>

\* l.93-107: the sensors are constructed, the loop is entered
EnterLoop ==
    /\ pc = At("init", "left")
    /\ pc' = At("process", "left")
    /\ UNCHANGED <<iterations, lock, sensordata, dist_left, sweep_left, thres_left,
                   dist_right, sweep_right, thres_right, mqtt, requests, built>>
    /\ DataOnly

\* sensordata = sensor_left.process() (l.112-114), sensor_right (l.119-121)
Process ==
    /\ \E side \in {"left", "right"} :
          /\ pc = At("process", side)
          /\ pc' = At("acquire", side)
    /\ sensordata' = sensordata + 1
    /\ UNCHANGED <<iterations, lock, dist_left, sweep_left, thres_left,
                   dist_right, sweep_right, thres_right, mqtt, requests, built>>
    /\ DataOnly

\* with lock: (l.115, l.122)
Acquire ==
    /\ \E side \in {"left", "right"} :
          /\ pc = At("acquire", side)
          /\ pc' = At("dist", side)
    /\ lock = "none"
    /\ lock' = "main"
    /\ UNCHANGED <<iterations, sensordata, dist_left, sweep_left, thres_left,
                   dist_right, sweep_right, thres_right, mqtt, requests, built>>
    /\ DataOnly

\* dist_left = distance (l.116), dist_right (l.123)
StoreDist ==
    /\ \E side \in {"left", "right"} :
          /\ pc = At("dist", side)
          /\ pc' = At("sweep", side)
          /\ dist_left' = IF side = "left" THEN Some(sensordata) ELSE dist_left
          /\ dist_right' = IF side = "right" THEN Some(sensordata) ELSE dist_right
    /\ UNCHANGED <<iterations, lock, sensordata, sweep_left, thres_left,
                   sweep_right, thres_right, mqtt, requests, built>>
    /\ DataOnly

\* sweep_left = sensordata["sweep"] (l.117), sweep_right (l.124)
StoreSweep ==
    /\ \E side \in {"left", "right"} :
          /\ pc = At("sweep", side)
          /\ pc' = At("thres", side)
          /\ sweep_left' = IF side = "left" THEN Some(sensordata) ELSE sweep_left
          /\ sweep_right' = IF side = "right" THEN Some(sensordata) ELSE sweep_right
    /\ UNCHANGED <<iterations, lock, sensordata, dist_left, thres_left,
                   dist_right, thres_right, mqtt, requests, built>>
    /\ DataOnly

\* thres_left = sensordata["thres"] and the end of the with block (l.118),
\* thres_right (l.125)
StoreThres ==
    /\ \E side \in {"left", "right"} :
          /\ pc = At("thres", side)
          /\ pc' = IF side = "left" THEN At("process", "right") ELSE At("outputs", "right")
          /\ thres_left' = IF side = "left" THEN Some(sensordata) ELSE thres_left
          /\ thres_right' = IF side = "right" THEN Some(sensordata) ELSE thres_right
    /\ lock' = "none"
    /\ UNCHANGED <<iterations, sensordata, dist_left, sweep_left,
                   dist_right, sweep_right, mqtt, requests, built>>
    /\ DataOnly

\* the rest of the pass (l.126-161)
EndPass ==
    /\ pc = At("outputs", "right")
    /\ iterations < MaxIterations
    /\ iterations' = iterations + 1
    /\ pc' = At("process", "left")
    /\ UNCHANGED <<lock, sensordata, dist_left, sweep_left, thres_left,
                   dist_right, sweep_right, thres_right, mqtt, requests, built>>
    /\ DataOnly

\* a data request arrives: __on_message calls data_buildmessage (l.76)
DataRequest ==
    /\ mqtt = "idle"
    /\ requests < MaxRequests
    /\ mqtt' = "called"
    /\ UNCHANGED <<pc, iterations, lock, sensordata, dist_left, sweep_left, thres_left,
                   dist_right, sweep_right, thres_right, requests, built>>
    /\ DataOnly

\* with lock: (l.77)
DataAcquire ==
    /\ mqtt = "called"
    /\ lock = "none"
    /\ lock' = "mqtt"
    /\ mqtt' = "locked"
    /\ UNCHANGED <<pc, iterations, sensordata, dist_left, sweep_left, thres_left,
                   dist_right, sweep_right, thres_right, requests, built>>
    /\ DataOnly

\* the dict display of l.78-81: reading an unbound name raises NameError
message ==
    IF None \in {dist_left, sweep_left, thres_left, dist_right, sweep_right, thres_right}
    THEN Raises("NameError")
    ELSE Value([left |-> [dist |-> dist_left[1], sweep |-> sweep_left[1], thres |-> thres_left[1]],
                right |-> [dist |-> dist_right[1], sweep |-> sweep_right[1], thres |-> thres_right[1]]])

\* msg = {...}, the end of the with block and return msg (l.78-82)
DataBuild ==
    /\ mqtt = "locked"
    /\ built' = Some(message)
    /\ lock' = "none"
    /\ mqtt' = "idle"
    /\ requests' = requests + 1
    /\ UNCHANGED <<pc, iterations, sensordata, dist_left, sweep_left, thres_left,
                   dist_right, sweep_right, thres_right>>
    /\ DataOnly

InitData == InitLoop

NextData ==
    \/ EnterLoop
    \/ Process
    \/ Acquire
    \/ StoreDist
    \/ StoreSweep
    \/ StoreThres
    \/ EndPass
    \/ DataRequest
    \/ DataAcquire
    \/ DataBuild

DataSpec == InitData /\ [][NextData]_vars

(***************************************************************************)
(* Functions called stand-alone: the function and its arguments are drawn  *)
(* initially, and each action is one call.                                 *)
(***************************************************************************)
\* the largest divisor and dividend
MaxDividend == 12
\* the largest user limit of the step length
MaxUserLimit == 40
\* the largest number of groups of an extended structure
MaxGroups == 2

\* the groups of the model: up to two entries, sensor ids 1 and 2
Groups ==
    {<< >>}
    \cup {<< <<sid, v>> >> : sid \in {1, 2}, v \in {"foo", "bar"}}
    \cup {<< <<sid, v>>, <<3 - sid, w>> >> :
              sid \in {1, 2}, v \in {"foo", "bar"}, w \in {"foo", "bar"}}

ExtendedStructures == UNION {[1..n -> Groups] : n \in 0..MaxGroups}

\* the largest number of segments a stored calibration has values for
MaxSegments == 2

\* the lists of per-segment values whose order shows
SegmentLists == UNION {[1..n -> {<<1>>, <<2>>}] : n \in 0..MaxSegments}

\* the lists of per-segment values, the i-th being <<i, i>>
CountedLists == {[i \in 1..n |-> <<i, i>>] : n \in 0..MaxSegments}

\* the session configs a stored context names as used
AlgoSessions == {planned(DetectorConfig(250, 3000, "CFAR", 5), 1)[1]}

\* the contexts saved: every combination of present and absent fields
AlgoContexts ==
    { [offset_m |-> o,
       direct_leakage |-> dl,
       phase_jitter_comp_reference |-> pjcr,
       recorded_thresholds_mean_sweep |-> mean,
       recorded_thresholds_noise_std |-> std,
       bg_noise_std |-> bg,
       recorded_threshold_session_config_used |-> rt_used,
       close_range_session_config_used |-> cr_used,
       reference_temperature |-> temp] :
        o \in {None, Some(0)},
        dl \in {None, Some(<<1, 2>>)},
        pjcr \in {None, Some(<<3>>)},
        mean \in {None} \cup {Some(list) : list \in SegmentLists},
        std \in {None} \cup {Some(list) : list \in CountedLists},
        bg \in {None} \cup {Some(list) : list \in CountedLists},
        rt_used \in {None} \cup {Some(session) : session \in AlgoSessions},
        cr_used \in {None} \cup {Some(session) : session \in AlgoSessions},
        temp \in {None, Some(25)} }

\* the JSON values a member of a request has
MemberValues(key) ==
    CASE key = "id" -> {JNumber(1)}
      [] key = "method" -> {JString("status"), JString("data"), JString("reset"), JNumber(1)}
      [] key = "src" -> {JString("yo"), JNumber(1)}

\* the JSON objects with some of the members of a request
Requests ==
    { members \in UNION {[keys -> UNION {MemberValues(k) : k \in keys}] : keys \in SUBSET {"id", "method", "src"}} :
        \A k \in DOMAIN members : members[k] \in MemberValues(k) }

\* the payloads received: a request, another JSON value, text that is not
\* JSON, bytes that are not UTF-8
Payloads ==
    {Payload(TRUE, Some(JObject(members))) : members \in Requests}
        \cup {Payload(TRUE, Some(v)) : v \in {JNumber(5), JNull, JArray(<< >>), JArray(<<JString("method"), JString("src")>>)}}
        \cup {Payload(TRUE, None), Payload(FALSE, None)}

\* the clients: the callbacks are unset, return a result, or (data_cb) raise
Clients ==
    [pubtopic : {"gentry"}, verbose : BOOLEAN, status_cb : {None, Some(Value("status"))}, data_cb : {None, Some(Value("data")), Some(Raises("NameError"))}]

\* the largest number of reads of the status register in one wait
MaxReads == 2

\* the values of the status register: nothing set, created, created and
\* activated, data ready, and each with an error bit
Statuses ==
    { <<0, 0>>, <<0, 1>>, <<0, 3>>, <<0, 259>>, <<1, 0>>, <<1, 3>>, <<32768, 259>> }

\* the reads of one wait: the clock does not run backwards
StatusReads ==
    { reads \in UNION {[1..n -> [status : Statuses, elapsed : {0, 15, 31}]] : n \in 0..MaxReads} :
        \A k \in 1..(Len(reads) - 1) : reads[k].elapsed <= reads[k + 1].elapsed }

\* the sensor ids and configs saved
AlgoConfigs ==
    { <<1, DetectorConfig(250, 3000, "CFAR", 5)>>,
      <<2, [DetectorConfig(100, 3000, "RECORDED", 3) EXCEPT !.max_step_length = Some(12)]>> }

InitCalls ==
    /\ plan_table = PlanTable({DetectorConfig(250, 3000, "CFAR", 5)}, SensorIds)
    /\ entity_validation = TRUE
    /\ Constructed(1, DetectorConfig(250, 3000, "CFAR", 5))
    /\ q_config = detector_config
    /\ q_context = DetectorContext
    /\ q_sensor_id = sensor_id
    /\ q_status = NotEvaluated
    /\ NoTicks
    /\ NoPlans
    /\ NoGentry
    /\ f_returned = << >>
    /\ \/ /\ f_name = "is_divisor_of"
          /\ f_args \in (1..MaxDividend) \X (1..MaxDividend)
       \/ /\ f_name = "_limit_step_length"
          /\ f_args \in (1..5) \X ({None} \cup {Some(n) : n \in 0..MaxUserLimit})
       \/ /\ f_name = "extended_structure"
          /\ f_args \in {<<structure>> : structure \in ExtendedStructures}
       \/ /\ f_name = "on_message"
          /\ f_args \in {<<self, payload>> : self \in Clients, payload \in Payloads}
       \/ /\ f_name = "wait_start"
          /\ f_args \in {<<reads>> : reads \in StatusReads}
       \/ /\ f_name = "wait_for_data"
          /\ f_args \in {<<max_time, reads>> : max_time \in {10, 20}, reads \in StatusReads}
       \/ /\ f_name = "algo_data"
          /\ f_args \in {<<saved[1], saved[2], ctx>> : saved \in AlgoConfigs, ctx \in AlgoContexts}

Call(name, n, result) ==
    /\ f_name = name
    /\ Len(f_returned) = n
    /\ f_returned' = Append(f_returned, result)
    /\ UNCHANGED <<f_name, f_args, detector_vars, env_vars, query_vars, tick_vars,
                   plan_vars, gentry_vars>>

IsDivisorOf == Call("is_divisor_of", 0, is_divisor_of(f_args[1], f_args[2]))

LimitStepLength == Call("_limit_step_length", 0, limit_step_length(f_args[1], f_args[2]))

IterateExtendedStructure ==
    Call("extended_structure", 0, iterate_extended_structure(f_args[1]))

\* the items handed over are those iterate_extended_structure yielded
CreateExtendedStructure ==
    Call("extended_structure", 1, create_extended_structure(f_returned[1]))

RecordAlgoData ==
    Call("algo_data", 0, record_algo_data(f_args[1], f_args[2], f_args[3]))

\* the group read is the one _record_algo_data has written
LoadAlgoData ==
    /\ f_name = "algo_data"
    /\ Len(f_returned) = 1
    /\ f_returned[1].raised = "none"
    /\ Call("algo_data", 1, load_algo_data(f_returned[1].algo_group))

OnMessage == Call("on_message", 0, on_message(f_args[1], f_args[2]))

WaitStart == Call("wait_start", 0, wait_start(f_args[1]))

WaitForData == Call("wait_for_data", 0, wait_for_data(f_args[1], f_args[2]))

NextCalls ==
    \/ IsDivisorOf
    \/ LimitStepLength
    \/ IterateExtendedStructure
    \/ CreateExtendedStructure
    \/ RecordAlgoData
    \/ LoadAlgoData
    \/ WaitStart
    \/ WaitForData
    \/ OnMessage

CallSpec == InitCalls /\ [][NextCalls]_vars

(***************************************************************************)
(* Properties of the Detector life cycle (checked under Spec).             *)
(***************************************************************************)
StoppedOps == {"start", "calibrate_noise", "calibrate_offset",
               "calibrate_close_range", "record_threshold"}
StartedOps == {"get_next", "stop"}

\* C1: an operation that requires a stopped detector (start and the four
\* calibrations), called while started is true, raises before any client
\* call and leaves started, the context and the client's session unchanged.
C1_StoppedOpsRaiseWhenStarted ==
    [][(started /\ op' \in StoppedOps) =>
          /\ raised' = "RuntimeError"
          /\ calls' = 0
          /\ started' = started
          /\ context' = context
          /\ client_session' = client_session]_vars

C1_Witness ==
    /\ started
    /\ op = "record_threshold"
    /\ raised = "RuntimeError"
    /\ calls = 0
    /\ client_session = "running"

\* C2: get_next and stop, called while started is false (initially or after
\* a stop), raise RuntimeError without a client call and change nothing of
\* the detector.
C2_StartedOpsRaiseWhenStopped ==
    [][(~started /\ op' \in StartedOps) =>
          /\ raised' = "RuntimeError"
          /\ calls' = 0
          /\ UNCHANGED <<started, context, client_session, aggregator,
                         session_config, processor_specs, detector_config,
                         sensor_id>>]_vars

C2_Witness ==
    /\ ~started
    /\ op = "stop"
    /\ raised = "RuntimeError"
    /\ calls = 0
    /\ aggregator /= None
    /\ client_session = "setup"

\* C3: start raises, without calibrating and without a client call, and
\* leaves started false whenever the status of the detector's config and
\* context is not ready_to_start; started becomes true only from a state
\* whose status is OK.
C3_StartRefusedUnlessReady ==
    [][/\ (/\ op' = "start"
           /\ ~get_detector_status(detector_config, context, sensor_id).ready_to_start)
          => /\ raised' /= "none"
             /\ calls' = 0
             /\ started' = started
             /\ context' = context
       /\ (~started /\ started')
          => get_detector_status(detector_config, context, sensor_id).detector_state
                 = "OK"]_vars

C3_Witness ==
    /\ op = "start"
    /\ raised = "RuntimeError"
    /\ calls = 0
    /\ ~started
    /\ get_detector_status(detector_config, context, sensor_id).detector_state
           = "RECORDED_THRESHOLD_CONFIG_MISMATCH"

\* C4: the context is written only while started is false: no step taken
\* from a started detector (get_next, stop or any refused operation)
\* changes a field of the context.
C4_ContextFrozenWhileStarted ==
    [][started => context' = context]_vars

C4_Witness ==
    /\ started
    /\ op = "get_next"
    /\ raised = "none"
    /\ returned = "DetectorResult"
    /\ context.recorded_thresholds_mean_sweep /= None

\* C5: for a Detector built with start_m = 0.25, end_m = 3.0 and a client
\* that answers every request, calibrate_noise, calibrate_offset, start,
\* get_next, stop succeed one after the other: none raises, started is true
\* exactly between start and stop, get_next returns a DetectorResult.
C5_EndToEndSequence ==
    e2e \in 0..Len(E2E) =>
        /\ detector_config.start_m = 250 /\ detector_config.end_m = 3000
        /\ raised = "none"
        /\ started = (e2e \in {3, 4})
        /\ (e2e >= 1 => op = E2E[e2e])
        /\ (e2e = 4 => returned = "DetectorResult")
        /\ (e2e >= 3 => calls > 0)

C5_Witness ==
    /\ e2e = Len(E2E)
    /\ op = "stop"
    /\ raised = "none"
    /\ ~started
    /\ context.bg_noise_std /= None
    /\ context.offset_m /= None

(***************************************************************************)
(* Properties of get_detector_status (checked under StatusSpec).           *)
(***************************************************************************)
Evaluated == q_status.detector_state /= "NOT_EVALUATED"

\* a range that is valid by the documented rule (start < end, both within
\* the limits) and passes the range check of the code as well
InRange(config) ==
    /\ MIN_DIST_M < config.start_m
    /\ config.start_m < config.end_m
    /\ config.end_m < MAX_DIST_M

HasCloseRangeSegment(config) == plan_table[config].segments.CLOSE_RANGE > 0

LeakageCalibrated(ctx) ==
    ctx.direct_leakage /= None /\ ctx.phase_jitter_comp_reference /= None

ThresholdStored(ctx) ==
    /\ ctx.recorded_thresholds_mean_sweep /= None
    /\ ctx.recorded_thresholds_noise_std /= None

\* the session config implied by the live config
LiveSession == Some(plan_table[q_config].result[q_sensor_id][1])

\* the state the presence-then-staleness check of the recorded threshold
\* is to give
ThresholdState ==
    IF ~ThresholdStored(q_context) THEN "RECORDED_THRESHOLD_MISSING"
    ELSE IF q_context.recorded_threshold_session_config_used /= LiveSession
    THEN "RECORDED_THRESHOLD_CONFIG_MISMATCH"
    ELSE "OK"

\* C6: for a (valid-range) config whose plan has a close-range segment and
\* a context with leakage calibrated, the status is
\* CLOSE_RANGE_CALIBRATION_CONFIG_MISMATCH, not ready to start, whenever
\* close_range_session_config_used differs from the live session config,
\* whatever the recorded-threshold fields hold.
C6_CloseRangeConfigMismatch ==
    (/\ Evaluated
     /\ InRange(q_config)
     /\ HasCloseRangeSegment(q_config)
     /\ LeakageCalibrated(q_context)
     /\ q_context.close_range_session_config_used /= LiveSession)
    => /\ q_status.raised = "none"
       /\ q_status.detector_state = "CLOSE_RANGE_CALIBRATION_CONFIG_MISMATCH"
       /\ ~q_status.ready_to_start

C6_Witness ==
    /\ InRange(q_config)
    /\ HasCloseRangeSegment(q_config)
    /\ LeakageCalibrated(q_context)
    /\ q_context.close_range_session_config_used /= None
    /\ q_context.close_range_session_config_used /= LiveSession
    /\ ThresholdState = "OK"
    /\ q_status.detector_state = "CLOSE_RANGE_CALIBRATION_CONFIG_MISMATCH"

\* C7: for a (valid-range) config whose plan has a close-range segment and
\* a context without leakage calibration, the status is
\* CLOSE_RANGE_CALIBRATION_MISSING with ready_to_calibrate_close_range true,
\* ready_to_record_threshold and ready_to_start false, whatever the
\* recorded-threshold fields hold.
C7_CloseRangeCalibrationFirst ==
    (/\ Evaluated
     /\ InRange(q_config)
     /\ HasCloseRangeSegment(q_config)
     /\ q_context.direct_leakage = None
     /\ q_context.phase_jitter_comp_reference = None)
    => q_status = DetectorStatus("CLOSE_RANGE_CALIBRATION_MISSING", TRUE, FALSE, FALSE)

C7_Witness ==
    /\ InRange(q_config)
    /\ HasCloseRangeSegment(q_config)
    /\ q_context.direct_leakage = None
    /\ q_context.phase_jitter_comp_reference = None
    /\ ThresholdState = "OK"
    /\ q_context.close_range_session_config_used = LiveSession
    /\ q_status.detector_state = "CLOSE_RANGE_CALIBRATION_MISSING"

\* C8: for a (valid-range) config with a close-range segment whose leakage
\* calibration matches the live session config, the status is
\* RECORDED_THRESHOLD_MISSING when no recorded threshold is stored,
\* RECORDED_THRESHOLD_CONFIG_MISMATCH when it is stored against another
\* session config, and OK, ready to start, only when it is stored against
\* the live one.
C8_CloseRangeThresholdStaleness ==
    (/\ Evaluated
     /\ InRange(q_config)
     /\ HasCloseRangeSegment(q_config)
     /\ LeakageCalibrated(q_context)
     /\ q_context.close_range_session_config_used = LiveSession)
    => /\ q_status.raised = "none"
       /\ q_status.detector_state = ThresholdState
       /\ q_status.ready_to_start = (ThresholdState = "OK")

C8_Witness ==
    /\ InRange(q_config)
    /\ HasCloseRangeSegment(q_config)
    /\ LeakageCalibrated(q_context)
    /\ q_context.close_range_session_config_used = LiveSession
    /\ ThresholdStored(q_context)
    /\ q_context.recorded_threshold_session_config_used = LiveSession
    /\ q_status.detector_state = "OK"
    /\ q_status.ready_to_start

\* C9: for a valid-range config whose plan has no close-range segment the
\* status is never a CLOSE_RANGE_* one and is the same for every content of
\* the leakage fields: with threshold method RECORDED it follows the
\* presence-then-staleness check of the recorded threshold, with any other
\* method it is OK.
C9_FarRangeStatus ==
    (/\ Evaluated
     /\ InRange(q_config)
     /\ ~HasCloseRangeSegment(q_config))
    => /\ q_status.raised = "none"
       /\ q_status.detector_state \notin {"CLOSE_RANGE_CALIBRATION_MISSING",
                                          "CLOSE_RANGE_CALIBRATION_CONFIG_MISMATCH"}
       /\ q_status.detector_state =
              (IF q_config.threshold_method = "RECORDED" THEN ThresholdState ELSE "OK")
       /\ q_status.ready_to_start = (q_status.detector_state = "OK")

C9_Witness ==
    /\ InRange(q_config)
    /\ ~HasCloseRangeSegment(q_config)
    /\ q_config.threshold_method = "RECORDED"
    /\ q_context.direct_leakage /= None
    /\ q_context.phase_jitter_comp_reference = None
    /\ q_status.detector_state = "RECORDED_THRESHOLD_CONFIG_MISMATCH"

\* C10: every config with start_m >= end_m, or with start_m or end_m outside
\* [0, 17] m, is rejected as an invalid range: the status is
\* INVALID_DETECTOR_CONFIG_RANGE with no ready flag set, and planning
\* produces no plan for it.
C10_InvalidRangeRejected ==
    (/\ Evaluated
     /\ \/ q_config.start_m >= q_config.end_m
        \/ q_config.start_m < MIN_DIST_M \/ q_config.start_m > MAX_DIST_M
        \/ q_config.end_m < MIN_DIST_M \/ q_config.end_m > MAX_DIST_M)
    => /\ q_status = DetectorStatus("INVALID_DETECTOR_CONFIG_RANGE", FALSE, FALSE, FALSE)
       /\ plan_table[q_config].segments.CLOSE_RANGE = 0
       /\ plan_table[q_config].segments.FAR_RANGE = 0

\* C11: every config with 0 <= start_m < end_m <= 17 m, both bounds of
\* [0, 17] included, is a valid range: its status is never
\* INVALID_DETECTOR_CONFIG_RANGE.
C11_InclusiveBoundsValid ==
    (/\ Evaluated
     /\ MIN_DIST_M <= q_config.start_m
     /\ q_config.start_m < q_config.end_m
     /\ q_config.end_m <= MAX_DIST_M)
    => q_status.detector_state /= "INVALID_DETECTOR_CONFIG_RANGE"

ConfigMismatch == {"CLOSE_RANGE_CALIBRATION_CONFIG_MISMATCH",
                   "RECORDED_THRESHOLD_CONFIG_MISMATCH"}

\* C12 as stated: the status depends on the config and the context only,
\* so evaluating it for any other sensor id gives the same DetectorStatus.
C12_StatusIgnoresSensorId ==
    Evaluated =>
        \A sid \in QuerySensorIds :
            get_detector_status(q_config, q_context, sid) = q_status

\* C12, amended: an evaluation changes neither the config nor the context,
\* and the status depends on the sensor id only through the comparison of
\* the stored session configs with the live one: evaluated for another
\* sensor id it is the same status, or one of the two is a *_CONFIG_MISMATCH
\* status; the validity of the range and ready_to_calibrate_close_range are
\* the same for every sensor id.
C12_StatusAcrossSensorIds ==
    [][(q_status' /= q_status) =>
          /\ UNCHANGED <<q_config, q_context, q_sensor_id, detector_config, context>>
          /\ \A sid \in QuerySensorIds :
                \E other \in {get_detector_status(q_config, q_context, sid)} :
                    /\ \/ other = q_status'
                       \/ other.detector_state \in ConfigMismatch
                       \/ q_status'.detector_state \in ConfigMismatch
                    /\ other.ready_to_calibrate_close_range
                           = q_status'.ready_to_calibrate_close_range
                    /\ (other.detector_state = "INVALID_DETECTOR_CONFIG_RANGE")
                           = (q_status'.detector_state = "INVALID_DETECTOR_CONFIG_RANGE")]_vars

C12_Witness ==
    /\ q_status.detector_state = "OK"
    /\ LeakageCalibrated(q_context)
    /\ \E sid \in QuerySensorIds :
           get_detector_status(q_config, q_context, sid).detector_state
               = "CLOSE_RANGE_CALIBRATION_CONFIG_MISMATCH"

\* C14: in every state reachable by Detector operations, also by those that
\* raise part-way, direct_leakage and phase_jitter_comp_reference of the
\* context are both present or both absent, so _close_range_calibrated does
\* not raise.
C14_LeakagePairTogether ==
    /\ (context.direct_leakage = None) = (context.phase_jitter_comp_reference = None)
    /\ close_range_calibrated(context) /= "RuntimeError"

C14_Witness ==
    /\ op = "calibrate_close_range"
    /\ raised = "ClientError"
    /\ calls = 4
    /\ context.direct_leakage /= None
    /\ context.phase_jitter_comp_reference /= None

\* C13: a calibrate_close_range that returns leaves the recorded-threshold
\* fields absent, and the status of the detector's config is then
\* RECORDED_THRESHOLD_MISSING and not ready to start.
C13_CloseRangeCalibrationInvalidatesThreshold ==
    [][(op' = "calibrate_close_range" /\ raised' = "none") =>
          /\ context'.recorded_thresholds_mean_sweep = None
          /\ context'.recorded_thresholds_noise_std = None
          /\ \E status \in {get_detector_status(detector_config', context', sensor_id')} :
                 /\ status.detector_state = "RECORDED_THRESHOLD_MISSING"
                 /\ ~status.ready_to_start]_vars

(***************************************************************************)
(* Properties of unwrap_ticks (checked under TickSpec).                    *)
(***************************************************************************)
\* the last call returned the ticks of a batch that was not empty
Unwrapped ==
    /\ t_calls > 0
    /\ t_unwrapped.raised = "none"
    /\ t_ticks /= << >>

\* the ticks returned are those of the batch, the low ticks of a batch that
\* spans more than half the period moved up by one period, plus k periods
UniformlyWrapped(k) ==
    /\ Len(t_unwrapped.ticks) = Len(t_ticks)
    /\ \A i \in 1..Len(t_ticks) :
           t_unwrapped.ticks[i] =
               t_ticks[i] + k * t_limit
                 + (IF /\ 2 * (SeqMax(t_ticks) - SeqMin(t_ticks)) > t_limit
                       /\ t_ticks[i] < t_limit \div 2
                    THEN t_limit ELSE 0)

\* C15: in a chain of calls where each returned maximum is passed as the next
\* minimum_tick, no tick returned by a call is less than the largest maximum
\* returned before it, and the rolling maximum the caller keeps does not
\* decrease.
C15_RollingMaximumNeverDecreases ==
    [][(/\ t_calls' = t_calls + 1
        /\ t_unwrapped'.raised = "none"
        /\ t_previous_maximum /= None) =>
          /\ \A i \in 1..Len(t_unwrapped'.ticks) :
                 t_unwrapped'.ticks[i] >= t_previous_maximum[1]
          /\ t_minimum_tick' /= None
          /\ t_minimum_tick'[1] >= t_previous_maximum[1]]_vars

\* C16 as stated: with a minimum_tick given, one number of periods is added
\* to the whole batch and every tick returned is strictly greater than
\* minimum_tick.
C16_StrictlyGreaterThanMinimum ==
    (Unwrapped /\ t_passed /= None) =>
        /\ \E k \in 0..(t_passed[1] \div t_limit + 1) : UniformlyWrapped(k)
        /\ \A i \in 1..Len(t_unwrapped.ticks) : t_unwrapped.ticks[i] > t_passed[1]

\* C16, amended: with a minimum_tick given, one number of periods is added to
\* the whole batch and no tick returned is less than minimum_tick.
C16_NotLessThanMinimum ==
    (Unwrapped /\ t_passed /= None) =>
        /\ \E k \in 0..(t_passed[1] \div t_limit + 1) : UniformlyWrapped(k)
        /\ \A i \in 1..Len(t_unwrapped.ticks) : t_unwrapped.ticks[i] >= t_passed[1]

C16_Witness ==
    /\ Unwrapped
    /\ t_passed /= None
    /\ \E i \in 1..Len(t_ticks) :
           /\ t_unwrapped.ticks[i] = t_passed[1]
           /\ t_unwrapped.ticks[i] > t_ticks[i]

\* C17 as stated: unwrap_ticks applied with the same minimum_tick to the
\* ticks it returned returns those ticks and the same maximum.
C17_Idempotent ==
    (t_calls > 0 /\ t_unwrapped.raised = "none") =>
        unwrap_ticks(t_unwrapped.ticks, t_passed, t_limit) = t_unwrapped

\* C17, amended: unwrap_ticks applied with the same minimum_tick to the ticks
\* it returned returns those ticks and the same maximum when all of them are
\* below the wrap period, and raises ValueError when one of them is not.
C17_IdempotentBelowLimit ==
    (t_calls > 0 /\ t_unwrapped.raised = "none") =>
        \E again \in {unwrap_ticks(t_unwrapped.ticks, t_passed, t_limit)} :
            IF \A i \in 1..Len(t_unwrapped.ticks) : t_unwrapped.ticks[i] < t_limit
            THEN again = t_unwrapped
            ELSE again = ValueError

C17_Witness ==
    /\ Unwrapped
    /\ t_passed /= None
    /\ \E i \in 1..Len(t_ticks) : t_unwrapped.ticks[i] >= t_limit
    /\ \E i \in 1..Len(t_ticks) : t_unwrapped.ticks[i] < t_limit

\* C18: with no minimum_tick, the ticks below half the wrap period get one
\* period added exactly when the batch spans more than half the period, the
\* other ticks are returned as they are, and the second value returned is
\* the maximum of the ticks returned; with limit 100, [90, 0] gives
\* ([90, 100], 100) and [40, 60] gives ([40, 60], 60).
C18_InBatchUnwrap ==
    (Unwrapped /\ t_passed = None) =>
        /\ UniformlyWrapped(0)
        /\ t_unwrapped.maximum = Some(SeqMax(t_unwrapped.ticks))
        /\ (t_limit = TestLimit /\ t_ticks = <<90, 0>>)
               => t_unwrapped = Returned(<<90, 100>>, Some(100))
        /\ (t_limit = TestLimit /\ t_ticks = <<40, 60>>)
               => t_unwrapped = Returned(<<40, 60>>, Some(60))

C18_Witness ==
    /\ Unwrapped
    /\ t_passed = None
    /\ t_limit = TestLimit
    /\ t_ticks = <<90, 0>>
    /\ t_unwrapped.ticks = <<90, 100>>

(***************************************************************************)
(* Properties of the range planner (checked under PlanSpec).               *)
(***************************************************************************)
\* the requested (pre-margin) ranges of the planned segments, in the order
\* close range, transition, max profile, in half-millimetres
Cores ==
    [k \in 1..(Len(p_plans[1].CLOSE_RANGE) + Len(p_plans[1].FAR_RANGE)) |->
        (p_plans[1].CLOSE_RANGE \o p_plans[1].FAR_RANGE)[k].core_m]

\* C19: for a config with a valid range, the core ranges of the planned
\* segments tile [start_m, end_m]: the first begins at start_m, the last ends
\* at end_m, each begins where the one before it ends, and none is empty or
\* reversed (the sub-segments of the max-profile plan divide its core range
\* evenly).
C19_CoresTileRange ==
    (p_plans /= None) =>
        /\ Len(Cores) > 0
        /\ Cores[1][1] = 2 * p_config.start_m
        /\ Cores[Len(Cores)][2] = 2 * p_config.end_m
        /\ \A k \in 1..Len(Cores) : Cores[k][1] < Cores[k][2]
        /\ \A k \in 1..(Len(Cores) - 1) : Cores[k][2] = Cores[k + 1][1]

(***************************************************************************)
(* Configuration errors of the Detector (checked under Spec).              *)
(***************************************************************************)
\* C20: on a Detector whose config has an invalid range, start and each of
\* the four calibrations raise without having made a client call.
C20_InvalidRangeRaisesBeforeClientCall ==
    [][(op' \in StoppedOps /\ ~valid_detector_config_range(detector_config)) =>
          /\ raised' /= "none"
          /\ calls' = 0]_vars

(***************************************************************************)
(* Properties of functions called stand-alone (checked under CallSpec).    *)
(***************************************************************************)
\* C21 as stated: create_extended_structure applied to the items of
\* iterate_extended_structure(s) returns s, for every extended structure s.
C21_CreateInvertsIterate ==
    (f_name = "extended_structure" /\ Len(f_returned) = 2) =>
        f_returned[2] = Created(f_args[1])

\* C21, amended: create_extended_structure applied to the items of
\* iterate_extended_structure(s) returns s, its groups and their entries in
\* the same order, for every extended structure s none of whose groups is
\* empty.
C21_CreateInvertsIterateOfNonEmptyGroups ==
    (/\ f_name = "extended_structure"
     /\ Len(f_returned) = 2
     /\ \A g \in 1..Len(f_args[1]) : f_args[1][g] /= << >>) =>
        f_returned[2] = Created(f_args[1])

C21_Witness ==
    /\ f_name = "extended_structure"
    /\ Len(f_returned) = 2
    /\ Len(f_args[1]) = 2
    /\ Len(f_args[1][1]) = 2
    /\ Len(f_args[1][2]) = 1
    /\ f_returned[2].structure = f_args[1]

\* C23: is_divisor_of(divisor, dividend) is true exactly when divisor
\* divides dividend without remainder, for positive divisor and dividend.
C23_IsDivisorOf ==
    (f_name = "is_divisor_of" /\ Len(f_returned) = 1) =>
        (f_returned[1] = (f_args[2] % f_args[1] = 0))

\* the step lengths the sensor accepts: those listed and the multiples of 24
ValidStepLength(n) ==
    n \in Range(VALID_STEP_LENGTHS) \/ (n > 0 /\ n % 24 = 0)

\* the limit of the step length: the base steps in the envelope FWHM of the
\* profile divided by 4, and the user limit when there is one
StepLengthLimit ==
    IF f_args[2] = None
    THEN ENVELOPE_FWHM_P[f_args[1]] \div MIN_NUM_POINTS_IN_ENVELOPE_FWHM_SPAN
    ELSE Min2(f_args[2][1],
              ENVELOPE_FWHM_P[f_args[1]] \div MIN_NUM_POINTS_IN_ENVELOPE_FWHM_SPAN)

\* C28: _limit_step_length returns a valid step length (one of 1, 2, 3, 4,
\* 6, 8, 12, 24 or a multiple of 24) that is not longer than the limit, and
\* no valid step length between it and the limit exists.
C28_LargestValidStepLength ==
    (f_name = "_limit_step_length" /\ Len(f_returned) = 1) =>
        /\ ValidStepLength(f_returned[1])
        /\ f_returned[1] <= StepLengthLimit
        /\ \A n \in (f_returned[1] + 1)..StepLengthLimit : ~ValidStepLength(n)

(***************************************************************************)
(* Sessions, plans and the context across operations (checked under Spec). *)
(***************************************************************************)
\* C24: a detector that is not started holds no running client session:
\* every calibration, whether it returns or raises, ends with the session
\* it started stopped.
C24_NoRunningSessionWhenStopped ==
    ~started => client_session /= "running"

\* C26: after construction and after every update_config, session_config and
\* processor_specs are those planned from detector_config, the config whose
\* status start() checks.
C26_PlanOfDetectorConfig ==
    /\ session_config = planned(detector_config, sensor_id)[1]
    /\ processor_specs = planned(detector_config, sensor_id)[2]

\* C27: start or a calibration that raises leaves every field of the context
\* as it was before the call.
C27_FailedCallKeepsContext ==
    [][(op' \in StoppedOps /\ raised' /= "none") => context' = context]_vars

(***************************************************************************)
(* Margins and breakpoints of the planned segments (checked under          *)
(* PlanSpec).                                                              *)
(***************************************************************************)
\* the planned segments in the order close range, transition, max profile
Segments == p_plans[1].CLOSE_RANGE \o p_plans[1].FAR_RANGE

\* the distance-filter margin of a segment, in points
FilterMargin(plan) ==
    distance_filter_edge_margin(plan.profile, plan.step_length) * plan.step_length

\* the CFAR margin of segment k: far-range segments under CFAR have it
CfarMargin(k) ==
    IF k > Len(p_plans[1].CLOSE_RANGE) /\ p_config.threshold_method = "CFAR"
    THEN calc_cfar_margin(Segments[k].profile, Segments[k].step_length)
             * Segments[k].step_length
    ELSE 0

\* C25: the left (right) margin of a segment is the CFAR margin, if any,
\* plus the distance-filter margin, counted twice exactly when another
\* segment is planned before (after) it.
C25_MarginDoubledAtNeighbours ==
    (p_plans /= None) =>
        \A k \in 1..Len(Segments) :
            /\ Segments[k].base_bpts[1] - Segments[k].breakpoints[1]
                   = CfarMargin(k)
                       + (IF k > 1 THEN 2 ELSE 1) * FilterMargin(Segments[k])
            /\ Segments[k].breakpoints[Len(Segments[k].breakpoints)]
                   - Segments[k].base_bpts[Len(Segments[k].base_bpts)]
                   = CfarMargin(k)
                       + (IF k < Len(Segments) THEN 2 ELSE 1) * FilterMargin(Segments[k])

\* C29: for a config with a valid range, the breakpoints of every planned
\* segment, margins included, are strictly increasing.
C29_BreakpointsIncrease ==
    (p_plans /= None) =>
        \A k \in 1..Len(Segments) :
            \A i \in 1..(Len(Segments[k].breakpoints) - 1) :
                Segments[k].breakpoints[i] < Segments[k].breakpoints[i + 1]

\* C30: the ready flags of an evaluated status agree with its state:
\* ready_to_record_threshold is true whenever the state is
\* RECORDED_THRESHOLD_MISSING or RECORDED_THRESHOLD_CONFIG_MISMATCH,
\* ready_to_calibrate_close_range is true whenever it is
\* CLOSE_RANGE_CALIBRATION_MISSING or CLOSE_RANGE_CALIBRATION_CONFIG_MISMATCH,
\* and ready_to_start is true exactly when the state is OK.
C30_ReadyFlagsAgreeWithState ==
    (Evaluated /\ q_status.raised = "none") =>
        /\ (q_status.detector_state \in {"RECORDED_THRESHOLD_MISSING",
                                         "RECORDED_THRESHOLD_CONFIG_MISMATCH"})
               => q_status.ready_to_record_threshold
        /\ (q_status.detector_state \in {"CLOSE_RANGE_CALIBRATION_MISSING",
                                         "CLOSE_RANGE_CALIBRATION_CONFIG_MISMATCH"})
               => q_status.ready_to_calibrate_close_range
        /\ q_status.ready_to_start = (q_status.detector_state = "OK")

\* C22: _load_algo_data applied to what _record_algo_data wrote returns the
\* sensor id saved, a config equal to the one saved and a context in which
\* exactly the fields present in the saved context are present, with equal
\* values, each per-segment list with its length and the order of its items.
C22_SnapshotRoundTrip ==
    (f_name = "algo_data" /\ Len(f_returned) = 2) =>
        /\ f_returned[2].raised = "none"
        /\ f_returned[2].sensor_id = f_args[1]
        /\ f_returned[2].config = f_args[2]
        /\ \A k \in Range(ContextFields) :
              /\ (f_returned[2].context[k] = None) = (f_args[3][k] = None)
              /\ f_args[3][k] /= None =>
                    /\ f_returned[2].context[k][1] = f_args[3][k][1]
                    /\ k \in Range(ListFields) =>
                          /\ Len(f_returned[2].context[k][1]) = Len(f_args[3][k][1])
                          /\ \A i \in 1..Len(f_args[3][k][1]) :
                                f_returned[2].context[k][1][i] = f_args[3][k][1][i]

C22_Witness ==
    /\ f_name = "algo_data"
    /\ Len(f_returned) = 2
    /\ f_args[3].offset_m = Some(0)
    /\ f_args[3].reference_temperature = None
    /\ f_args[3].recorded_thresholds_mean_sweep = Some(<< <<2>>, <<1>> >>)
    /\ f_args[3].recorded_thresholds_noise_std = Some(<< >>)
    /\ f_args[3].bg_noise_std = Some(<< <<1, 1>>, <<2, 2>> >>)
    /\ f_args[3].close_range_session_config_used /= None
    /\ f_returned[2].context = f_args[3]

(***************************************************************************)
(* Further properties of unwrap_ticks (checked under TickSpec).            *)
(***************************************************************************)
\* C38: for a batch whose ticks are all in [0, limit) and a minimum_tick that
\* is None or not negative, unwrap_ticks returns a list of the same length
\* whose i-th element is the i-th raw tick plus a whole number, zero or
\* more, of wrap periods.
C38_WholePeriodsAdded ==
    (/\ t_calls > 0
     /\ \A i \in 1..Len(t_ticks) : 0 <= t_ticks[i] /\ t_ticks[i] < t_limit
     /\ t_passed /= None => t_passed[1] >= 0) =>
        /\ t_unwrapped.raised = "none"
        /\ Len(t_unwrapped.ticks) = Len(t_ticks)
        /\ \A i \in 1..Len(t_ticks) :
              /\ t_unwrapped.ticks[i] >= t_ticks[i]
              /\ (t_unwrapped.ticks[i] - t_ticks[i]) % t_limit = 0

C38_Witness ==
    /\ t_calls > 0
    /\ t_limit = TestLimit
    /\ t_ticks = <<10, 90>>
    /\ t_passed = Some(195)
    /\ t_unwrapped.ticks = <<310, 290>>

(***************************************************************************)
(* Further properties of the Detector life cycle (checked under Spec).     *)
(***************************************************************************)
\* the plan in force has no close-range segment
NoCloseRangeSegment ==
    \A i \in 1..Len(processor_specs) : processor_specs[i].measurement_type /= "CLOSE_RANGE"

\* C34: calibrate_close_range on a stopped detector whose plan has no
\* close-range segment raises ValueError before any client call and leaves
\* the context, the leakage fields and the recorded threshold included, and
\* the client's session as they were.
C34_NoCloseRangeSegmentRaises ==
    [][(~started /\ op' = "calibrate_close_range" /\ NoCloseRangeSegment) =>
          /\ raised' = "ValueError"
          /\ calls' = 0
          /\ context' = context
          /\ client_session' = client_session
          /\ started' = started]_vars

C34_Witness ==
    /\ ~started
    /\ op = "calibrate_close_range"
    /\ NoCloseRangeSegment
    /\ raised = "ValueError"
    /\ calls = 0
    /\ context.recorded_thresholds_mean_sweep /= None
    /\ context.direct_leakage = None

(***************************************************************************)
(* Subsweeps of the far-range segments (checked under PlanSpec).           *)
(***************************************************************************)
\* the far-range plans
FarPlans == p_plans[1].FAR_RANGE

\* the transition plans are the far-range plans of a profile below max_profile
TransitionPlans == SelectSeq(FarPlans, LAMBDA plan : plan.profile < p_config.max_profile)

\* the plans of max_profile
MaxProfilePlans == SelectSeq(FarPlans, LAMBDA plan : plan.profile = p_config.max_profile)

\* the widths of the sub-segments of a plan, in points before the margins
Widths(plan) ==
    [k \in 1..(Len(plan.base_bpts) - 1) |-> plan.base_bpts[k + 1] - plan.base_bpts[k]]

\* the far-range sensor config and the subsweep indexes of the far-range
\* processor specs
FarSensorConfig ==
    far_subsweep_group_plans_to_sensor_config_and_subsweep_indexes(FarPlans)[1]
FarSubsweepIndexes ==
    far_subsweep_group_plans_to_sensor_config_and_subsweep_indexes(FarPlans)[2]

RECURSIVE Flattened(_)
Flattened(lists) ==
    IF lists = << >> THEN << >> ELSE Head(lists) \o Flattened(Tail(lists))

\* C33: at most two transition segments are planned, each one subsweep, and
\* they come before the max-profile segment; a max-profile segment, when
\* planned, is split into exactly 4 minus the number of transition segments
\* sub-segments of equal width (in points: equal up to the rounding of each
\* breakpoint to a multiple of the step length); so the far-range sensor
\* config has at most 4 subsweeps, and the subsweep indexes of the far-range
\* processor specs, one list per segment, are 0, 1, 2, ... in order, each
\* subsweep in exactly one list.
C33_FarRangeSubsweeps ==
    (p_plans /= None) =>
        /\ Len(TransitionPlans) <= 2
        /\ Len(MaxProfilePlans) <= 1
        /\ FarPlans = TransitionPlans \o MaxProfilePlans
        /\ \A k \in 1..Len(TransitionPlans) : Len(TransitionPlans[k].breakpoints) = 2
        /\ \A k \in 1..Len(MaxProfilePlans) :
              /\ Len(MaxProfilePlans[k].breakpoints) - 1
                     = NUM_SUBSWEEPS_IN_SENSOR_CONFIG - Len(TransitionPlans)
              /\ Len(MaxProfilePlans[k].base_bpts) = Len(MaxProfilePlans[k].breakpoints)
              /\ \A i, j \in 1..Len(Widths(MaxProfilePlans[k])) :
                    Widths(MaxProfilePlans[k])[i] - Widths(MaxProfilePlans[k])[j]
                        <= MaxProfilePlans[k].step_length
        /\ Len(FarSensorConfig.subsweeps) <= NUM_SUBSWEEPS_IN_SENSOR_CONFIG
        /\ Len(FarSubsweepIndexes) = Len(FarPlans)
        /\ Flattened(FarSubsweepIndexes)
               = [k \in 1..Len(FarSensorConfig.subsweeps) |-> k - 1]

C33_Witness ==
    /\ p_plans /= None
    /\ Len(TransitionPlans) = 2
    /\ Len(MaxProfilePlans) = 1
    /\ FarSubsweepIndexes = << <<0>>, <<1>>, <<2, 3>> >>

(***************************************************************************)
(* The started detector (checked under Spec).                              *)
(***************************************************************************)
\* C32: whenever started is true the context holds bg_noise_std and
\* offset_m, and a start() that returns, with or without skip_calibration,
\* has built an aggregator with one processor spec for every spec of the
\* plan in force.
C32_StartedDetectorIsCalibrated ==
    /\ [](started => (context.bg_noise_std /= None /\ context.offset_m /= None))
    /\ [][(op' = "start" /\ raised' = "none") =>
              /\ started'
              /\ aggregator' = Some(Len(processor_specs'))]_vars

(***************************************************************************)
(* Progress to readiness (checked under ReadySpec).                        *)
(***************************************************************************)
\* C31: for a config with a valid range and any starting context, the status
\* is evaluated without an exception and, while it is not OK, has at least
\* one ready flag set; running the calibration flagged ready
\* (record_threshold when ready_to_record_threshold, calibrate_close_range
\* otherwise), the client answering every call, the status eventually is OK,
\* and the start() that follows succeeds.
C31_ProgressToReadiness ==
    /\ [](/\ ReadyStatus.raised = "none"
          /\ ReadyStatus.detector_state /= "OK" =>
                \/ ReadyStatus.ready_to_record_threshold
                \/ ReadyStatus.ready_to_calibrate_close_range)
    /\ <>(ReadyStatus.detector_state = "OK")
    /\ [][(op' = "start") => (raised' = "none" /\ started')]_vars

(***************************************************************************)
(* Polling the status register (checked under CallSpec).                   *)
(***************************************************************************)
\* the reads of the wait called and the time it may take
WaitReads == f_args[Len(f_args)]
WaitMaxTime == IF f_name = "wait_start" THEN 30 ELSE f_args[1]
WaitWanted == IF f_name = "wait_start" THEN ACTIVATED_AND_CREATED ELSE DATA_READY

\* the k-th read is made: no read before it ended the wait
ReadMade(k) ==
    \A j \in 1..(k - 1) :
        /\ WaitReads[j].elapsed <= WaitMaxTime
        /\ BitAnd(WaitReads[j].status, ERROR_MASK) = <<0, 0>>
        /\ BitAnd(WaitReads[j].status, WaitWanted) /= WaitWanted

\* C39: wait_start and wait_for_data raise ModuleError at the first read of
\* the status register, made in time, whose value has an error bit set
\* (status & 0xFFFF0000 != 0): they neither poll on nor return.
C39_ErrorBitRaisesModuleError ==
    (f_name \in {"wait_start", "wait_for_data"} /\ Len(f_returned) = 1) =>
        \A k \in 1..Len(WaitReads) :
            (/\ ReadMade(k)
             /\ WaitReads[k].elapsed <= WaitMaxTime
             /\ BitAnd(WaitReads[k].status, ERROR_MASK) /= <<0, 0>>)
            => f_returned[1] = Waited("ModuleError", k)

(***************************************************************************)
(* The handler of a received message (checked under CallSpec).             *)
(***************************************************************************)
\* the payload is a JSON object with a src whose method is "status" or
\* "data" and the callback of that method is set
Answerable(self, payload) ==
    /\ payload.utf8
    /\ payload.json /= None
    /\ payload.json[1][1] = "object"
    /\ {"method", "src"} \subseteq DOMAIN payload.json[1][2]
    /\ \/ payload.json[1][2]["method"] = JString("status") /\ self.status_cb /= None
       \/ payload.json[1][2]["method"] = JString("data") /\ self.data_cb /= None

\* C40: __on_message raises for no payload and publishes at most one reply:
\* exactly one, to <pubtopic>/<src> and with the id and the method of the
\* request, when the payload is a JSON object with a src whose method is
\* "status" or "data" and the callback of that method is set; none otherwise.
C40_OneReplyAndNoException ==
    (f_name = "on_message" /\ Len(f_returned) = 1) =>
        /\ f_returned[1].raised = "none"
        /\ IF Answerable(f_args[1], f_args[2])
           THEN /\ Len(f_returned[1].published) = 1
                /\ JString(f_returned[1].published[1].topic[2]) = f_args[2].json[1][2]["src"]
                /\ f_returned[1].published[1].topic[1] = f_args[1].pubtopic
                /\ f_returned[1].published[1].id = f_args[2].json[1][2]["id"]
                /\ f_returned[1].published[1].method = f_args[2].json[1][2]["method"]
           ELSE f_returned[1].published = << >>

(***************************************************************************)
(* The outputs of the main loop (checked under LoopSpec).                  *)
(***************************************************************************)
\* C35: out2, once on, is switched off only by a pass of the loop that
\* evaluates the outputs more than TIME_ACTIVE after the last pass in which
\* left or right detected, and every pass ends with relay[1] driven to out2.
C35_Out2HeldAfterDetection ==
    /\ [][(out2 /\ ~out2') =>
              /\ clock' /= clock
              /\ ~left' /\ ~right'
              /\ detected' /= None => clock' > detected'[1] + TIME_ACTIVE]_vars
    /\ [][(clock' /= clock) => (gpio'[relay[2]] = out2')]_vars

\* out2 has just been switched off, a detection having switched it on
C35_Witness ==
    /\ detected /= None
    /\ ~out2
    /\ printed = <<"off">>
    /\ gpio[relay[2]] = FALSE
    /\ exitcode = None

\* C36: every pass of the loop that ends with out2 on detected, or a pass at
\* most TIME_ACTIVE before it did; out2 is off until the first detection.
C36_Out2OnlyOnDetection ==
    out2 => (detected /= None /\ clock <= detected[1] + TIME_ACTIVE)

(***************************************************************************)
(* data_buildmessage against the main thread (checked under DataSpec).     *)
(***************************************************************************)
\* C37: data_buildmessage, called at any moment after the Client is
\* constructed, returns a message, and in it the dist, sweep and thres of
\* each sensor come from one and the same reading.
C37_MessageOfWholeReadings ==
    built /= None =>
        /\ built[1].raised = "none"
        /\ \A side \in {built[1].value.left, built[1].value.right} :
              side.dist = side.sweep /\ side.sweep = side.thres

====
